---- MODULE Spec2Model ----
(***************************************************************************)
(* A model of the diff-to-structure extraction and candidate aggregation   *)
(* code of dataset_validation_ui.                                          *)
(*                                                                         *)
(* Text is modelled as Python sees it: a string is a sequence of           *)
(* one-character strings, a list of lines is a sequence of such sequences, *)
(* and the regular expressions of the source are matched character by      *)
(* character by the operators below.                                       *)
(***************************************************************************)
EXTENDS Integers, Sequences, FiniteSets, TLC

VARIABLES
    pc,            \* position of the run: which call has returned
    header,        \* parse_hunk_header: the header line passed in
    hdrFields,     \* the numbers the header line was written from
    resAdd,        \* add_detailed_file_info.parse_hunk_header's result
    resCore,       \* core.commit_operations.parse_hunk_header's result
    patch,         \* _parse_changed_lines_from_patch: the lines of the patch
    changed_lines, \* the set it returns
    source,        \* _get_changed_functions: the lines of the source text
    src_patch,     \* the lines of the patch passed with it
    entries,       \* the list it returns
    closed_units,  \* every unit the scan closed, with its line range
    hunk_lines,    \* extract_functions_from_hunk: the lines of the hunk
    tagged,        \* the list it returns
    job,           \* which aggregating function runs
    commits,       \* the commits it was given, oldest first
    pending,       \* the submitted futures that have not been consumed
    seen,          \* the commit URLs a record was made for
    results,       \* the list of records of the search functions
    matched,       \* the passes consumed so far that returned a match
    file_results,  \* _get_pr_changes: the per-file aggregate
    pr_result,     \* what _get_pr_changes returns
    commit_data_list, \* rank_with_gpt: the commits to score, with the reply
                      \* the scoring collaborator gives for each
    rank_pending,  \* the submitted futures that have not been consumed
    done_order,    \* the commits of the consumed futures, in their order
    all_rankings,  \* the list rank_with_gpt builds and returns
    blob_list,     \* get_blob_url_by_function: the blob references
    function_name, \* the name of the unit to resolve
    files_list,    \* the file names, index-aligned with blob_list
    blob_url,      \* what get_blob_url_by_function returns
    github_token,  \* get_finding_commit_data: the token of the processor
    cleaned_results, \* the commits found, with what the host holds for each
    struct_pending,  \* the submitted futures that have not been consumed
    commits_with_changes, \* the list get_finding_commit_data builds
    commit_objects,   \* process_commit_list: the commit objects passed in
    api_key,          \* the environment's GITHUB_API_KEY
    detail_pending,   \* the submitted futures that have not been consumed
    detailed_commits, \* the pre-allocated list process_commit_list returns
    head_sha,         \* get_commit_history_range: the newest commit of the branch
    base_sha,         \* the base reference passed in
    target_sha,       \* the target reference passed in, a SHA or a branch name
    compare_status,   \* the status of the host's answer to the comparison
    range_result,     \* the list get_commit_history_range returns
    requests_made,    \* run_get_commit_data: the number of requests so far
    ui_workers,       \* the requests whose worker has not updated the UI yet
    results_list,     \* the number of rows the results list shows
    ranked_commits,   \* state['ranked_commits']
    ranked_commits_cache, \* state['ranked_commits_cache']
    obj_context       \* obj["context"] of the selected object

hhVars == <<header, hdrFields, resAdd, resCore>>
lmVars == <<patch, changed_lines>>
cuVars == <<source, src_patch, entries, closed_units>>
ftVars == <<hunk_lines, tagged>>
agVars ==
    <<job, commits, pending, seen, results, matched, file_results, pr_result>>
rkVars == <<commit_data_list, rank_pending, done_order, all_rankings>>
\* The variables of the parts modelled after the aggregation
brVars == <<blob_list, function_name, files_list, blob_url>>
scVars == <<github_token, cleaned_results, struct_pending, commits_with_changes>>
dcVars == <<commit_objects, api_key, detail_pending, detailed_commits>>
hrVars == <<head_sha, base_sha, target_sha, compare_status, range_result>>
uiVars ==
    <<requests_made, ui_workers, results_list, ranked_commits, ranked_commits_cache>>
ocVars == <<obj_context>>
lastVars == <<dcVars, hrVars, uiVars, ocVars>>
moreVars == <<rkVars, brVars, scVars, lastVars>>
vars == <<pc, hhVars, lmVars, cuVars, ftVars, agVars, moreVars>>

(***************************************************************************)
(* Bounds of the model.                                                    *)
(***************************************************************************)
MaxStart == 10     \* hunk start lines 0..MaxStart
MaxCount == 3      \* hunk line counts 0..MaxCount
MaxPatchLen == 4   \* lines of a patch
MaxSrcLen == 4     \* lines of a source text
MaxHunkLen == 3    \* lines of a hunk
MaxCommits == 2    \* commits of a repository or pull request
MaxFiles == 2      \* files of a commit

(***************************************************************************)
(* Values of Python, and the state of a part of the program that a         *)
(* specification does not run.                                             *)
(***************************************************************************)
\* The empty dict
EmptyDict == [k \in {} |-> 0]

\* Python's None where a number is expected
None == 0 - 1

\* What core.commit_operations.parse_hunk_header returns for no match
NoCoreResult ==
    [from_line |-> None, from_len |-> None, to_line |-> None, to_len |-> None]

IdleHunk ==
    /\ hdrFields = [valid |-> FALSE, raw |-> <<>>]
    /\ header = <<>>
    /\ resAdd = EmptyDict
    /\ resCore = NoCoreResult

IdleMapper == patch = <<>> /\ changed_lines = {}

IdleUnits ==
    source = <<>> /\ src_patch = <<>> /\ entries = <<>> /\ closed_units = <<>>

IdleTagger == hunk_lines = <<>> /\ tagged = <<>>

IdleAggregate ==
    /\ job = "none" /\ commits = <<>> /\ pending = {}
    /\ seen = {} /\ results = <<>> /\ matched = {}
    /\ file_results = EmptyDict /\ pr_result = EmptyDict

IdleRank ==
    /\ commit_data_list = <<>> /\ rank_pending = {}
    /\ done_order = <<>> /\ all_rankings = <<>>

IdleResolver ==
    blob_list = <<>> /\ function_name = <<>> /\ files_list = <<>> /\ blob_url = <<>>

IdleStructural ==
    /\ github_token = <<>> /\ cleaned_results = <<>>
    /\ struct_pending = {} /\ commits_with_changes = <<>>

IdleDetails ==
    /\ commit_objects = <<>> /\ api_key = <<>>
    /\ detail_pending = {} /\ detailed_commits = <<>>

IdleHistory ==
    /\ head_sha = 0 /\ base_sha = <<>> /\ target_sha = <<>>
    /\ compare_status = 0 /\ range_result = <<>>

IdleGui ==
    /\ requests_made = 0 /\ ui_workers = {} /\ results_list = 0
    /\ ranked_commits = <<>> /\ ranked_commits_cache = <<>>

IdleContext == obj_context = <<>>

IdleLast == IdleDetails /\ IdleHistory /\ IdleGui /\ IdleContext

IdleMore == IdleRank /\ IdleResolver /\ IdleStructural /\ IdleLast

\* The parts modelled before the last ones, as one tuple and at rest
earlierVars == <<hhVars, lmVars, cuVars, ftVars, agVars, rkVars, brVars, scVars>>

IdleEarlier ==
    /\ IdleHunk /\ IdleMapper /\ IdleUnits /\ IdleTagger /\ IdleAggregate
    /\ IdleRank /\ IdleResolver /\ IdleStructural

(***************************************************************************)
(* Characters and strings.                                                 *)
(***************************************************************************)
Digit == {"0", "1", "2", "3", "4", "5", "6", "7", "8", "9"}
Lower == {"a", "b", "c", "d", "e", "f", "g", "h", "i", "j", "k", "l", "m",
          "n", "o", "p", "q", "r", "s", "t", "u", "v", "w", "x", "y", "z"}
Upper == {"A", "B", "C", "D", "E", "F", "G", "H", "I", "J", "K", "L", "M",
          "N", "O", "P", "Q", "R", "S", "T", "U", "V", "W", "X", "Y", "Z"}
\* [a-zA-Z0-9_], which is also \w on ASCII text
IdentChar == Lower \cup Upper \cup Digit \cup {"_"}
\* \s, and the characters str.strip() removes
Whitespace == {" ", "\t", "\n", "\r", "\f"}

\* The value a pattern group has when it took no part in the match (None), and
\* the empty string: both are falsy in Python.
NoText == <<>>

\* s[a:b] with 1-based a (inclusive) and b (exclusive)
Slice(s, a, b) == SubSeq(s, a, b - 1)

\* s.startswith(lit) at position p
HasLit(s, p, lit) ==
    /\ p + Len(lit) - 1 <= Len(s)
    /\ \A i \in 1..Len(lit) : s[p + i - 1] = lit[i]

StartsWith(s, lit) == HasLit(s, 1, lit)

\* The position after the longest run of characters of cs that starts at p
RECURSIVE RunEnd(_, _, _)
RunEnd(s, p, cs) ==
    IF p <= Len(s) /\ s[p] \in cs THEN RunEnd(s, p + 1, cs) ELSE p

DigitVal(c) ==
    CASE c = "0" -> 0 [] c = "1" -> 1 [] c = "2" -> 2 [] c = "3" -> 3
      [] c = "4" -> 4 [] c = "5" -> 5 [] c = "6" -> 6 [] c = "7" -> 7
      [] c = "8" -> 8 [] c = "9" -> 9

\* int(s) of a non-empty run of decimal digits
RECURSIVE int(_)
int(s) ==
    IF Len(s) = 1 THEN DigitVal(s[1])
    ELSE 10 * int(SubSeq(s, 1, Len(s) - 1)) + DigitVal(s[Len(s)])

\* str(n) of a natural number
RECURSIVE str(_)
str(n) ==
    LET d == <<"0", "1", "2", "3", "4", "5", "6", "7", "8", "9">>[(n % 10) + 1]
    IN  IF n < 10 THEN <<d>> ELSE str(n \div 10) \o <<d>>

RECURSIVE lstrip(_, _)
lstrip(s, cs) == IF s # <<>> /\ s[1] \in cs THEN lstrip(Tail(s), cs) ELSE s

RECURSIVE rstrip(_, _)
rstrip(s, cs) ==
    IF s # <<>> /\ s[Len(s)] \in cs THEN rstrip(SubSeq(s, 1, Len(s) - 1), cs)
    ELSE s

\* s.strip()
strip(s) == rstrip(lstrip(s, Whitespace), Whitespace)

Min(S) == CHOOSE x \in S : \A y \in S : x <= y

\* The element of a one-element set: {F(v) : v \in {e}} computes e once
TheOne(S) == CHOOSE x \in S : TRUE

(***************************************************************************)
(* HunkHeaderParser, add_detailed_file_info.parse_hunk_header.             *)
(***************************************************************************)
\* The pattern  @@ -(\d+)(?:,(\d+))? \+(\d+)(?:,(\d+))? @@  matched at
\* position p; end is the position after the match. Each \d+ is followed by
\* a character that is no digit, so the greedy match is the only one.
HunkNumbersAt(h, p) ==
    LET p1 == p + 4
        p2 == RunEnd(h, p1, Digit)
        oc == HasLit(h, p2, <<",">>) /\ RunEnd(h, p2 + 1, Digit) > p2 + 1
        p3 == IF oc THEN RunEnd(h, p2 + 1, Digit) ELSE p2
        p4 == p3 + 2
        p5 == RunEnd(h, p4, Digit)
        nc == HasLit(h, p5, <<",">>) /\ RunEnd(h, p5 + 1, Digit) > p5 + 1
        p6 == IF nc THEN RunEnd(h, p5 + 1, Digit) ELSE p5
    IN  IF /\ HasLit(h, p, <<"@", "@", " ", "-">>)
           /\ p2 > p1
           /\ HasLit(h, p3, <<" ", "+">>)
           /\ p5 > p4
           /\ HasLit(h, p6, <<" ", "@", "@">>)
        THEN [ok |-> TRUE,
              g1 |-> Slice(h, p1, p2),
              g2 |-> IF oc THEN Slice(h, p2 + 1, p3) ELSE NoText,
              g3 |-> Slice(h, p4, p5),
              g4 |-> IF nc THEN Slice(h, p5 + 1, p6) ELSE NoText,
              end |-> p6 + 3]
        ELSE [ok |-> FALSE]

\* The same pattern followed by (.*)$ : the rest of the line, which ends at
\* the end of the text or before a final line break. m is the match of the
\* numbers at the same position.
HunkPatternTail(h, m) ==
    LET e == IF h # <<>> /\ h[Len(h)] = "\n" THEN Len(h) ELSE Len(h) + 1
    IN  IF m.ok /\ \A i \in m.end..(e - 1) : h[i] # "\n"
        THEN [ok |-> TRUE, g1 |-> m.g1, g2 |-> m.g2, g3 |-> m.g3, g4 |-> m.g4,
              g5 |-> Slice(h, m.end, e)]
        ELSE [ok |-> FALSE]

HunkPatternAt(h, p) ==
    TheOne({HunkPatternTail(h, m) : m \in {HunkNumbersAt(h, p)}})

\* re.search: the leftmost position at which the pattern matches
HunkPatternSearch(h) ==
    LET ps == {p \in 1..Len(h) : HunkPatternAt(h, p).ok}
    IN  IF ps = {} THEN [ok |-> FALSE] ELSE HunkPatternAt(h, Min(ps))

\* int(old_count) or 1: a count of 0 read as an omitted count
HunkHeaderResult_zero_as_omitted(match) ==
    LET cnt(g) == IF g # NoText /\ int(g) # 0 THEN int(g) ELSE 1
        result == [old_start |-> int(match.g1), old_count |-> cnt(match.g2),
                   new_start |-> int(match.g3), new_count |-> cnt(match.g4)]
    IN  IF ~match.ok THEN EmptyDict
        ELSE IF match.g5 # NoText
             THEN result @@ ("context" :> strip(match.g5))
             ELSE result

\* The dict built from the match (lines 60 to 75)
HunkHeaderResult(match) ==
    LET result == [old_start |-> int(match.g1),
                   old_count |-> IF match.g2 # NoText THEN int(match.g2) ELSE 1,
                   new_start |-> int(match.g3),
                   new_count |-> IF match.g4 # NoText THEN int(match.g4) ELSE 1]
    IN  IF ~match.ok THEN EmptyDict
        ELSE IF match.g5 # NoText
             THEN result @@ ("context" :> strip(match.g5))
             ELSE result

parse_hunk_header(h) ==
    TheOne({HunkHeaderResult(match) : match \in {HunkPatternSearch(h)}})

(***************************************************************************)
(* HunkHeaderParser, core.commit_operations.parse_hunk_header.             *)
(***************************************************************************)
\* The pattern  @@ -(\d+),?(\d*) \+(\d+),?(\d*) @@  matched at the start of
\* the line (re.match). A shorter (\d+) would hand its digits to (\d*) and
\* reach the same position, so the greedy match decides.
CoreHunkPattern(h) ==
    LET p1 == 5
        p2 == RunEnd(h, p1, Digit)
        p3 == IF HasLit(h, p2, <<",">>) THEN p2 + 1 ELSE p2
        p4 == RunEnd(h, p3, Digit)
        p5 == p4 + 2
        p6 == RunEnd(h, p5, Digit)
        p7 == IF HasLit(h, p6, <<",">>) THEN p6 + 1 ELSE p6
        p8 == RunEnd(h, p7, Digit)
    IN  IF /\ HasLit(h, 1, <<"@", "@", " ", "-">>)
           /\ p2 > p1
           /\ HasLit(h, p4, <<" ", "+">>)
           /\ p6 > p5
           /\ HasLit(h, p8, <<" ", "@", "@">>)
        THEN [ok |-> TRUE,
              g1 |-> Slice(h, p1, p2), g2 |-> Slice(h, p3, p4),
              g3 |-> Slice(h, p5, p6), g4 |-> Slice(h, p7, p8)]
        ELSE [ok |-> FALSE]

\* an omitted length reported as 0
core_parse_hunk_header_omitted_zero(h) ==
    LET m == CoreHunkPattern(h)
    IN  IF ~m.ok
        THEN NoCoreResult
        ELSE [from_line |-> int(m.g1),
              from_len |-> IF m.g2 # NoText THEN int(m.g2) ELSE 0,
              to_line |-> int(m.g3),
              to_len |-> IF m.g4 # NoText THEN int(m.g4) ELSE 0]

core_parse_hunk_header(h) ==
    LET m == CoreHunkPattern(h)
    IN  IF ~m.ok
        THEN NoCoreResult
        ELSE [from_line |-> int(m.g1),
              from_len |-> IF m.g2 # NoText THEN int(m.g2) ELSE 1,
              to_line |-> int(m.g3),
              to_len |-> IF m.g4 # NoText THEN int(m.g4) ELSE 1]

(***************************************************************************)
(* The header parsers applied to header lines.                             *)
(***************************************************************************)
\* A count left out of the header
Omitted == 0 - 1

\* Text after the closing @@ of the generated headers
HeaderContexts ==
    {NoText, <<" ", " ">>, <<" ", "f", "u", "n", "c", "t", "i", "o", "n", " ", "f", "(", ")">>}

\* Lines that are no hunk header, or carry one after other text
RawHeaders ==
    { <<"@", "@", " ", "g", "a", "r", "b", "a", "g", "e">>,
      <<"@", "@", " ", "-", "1", ",", "2", " ", "+", "3", ",", "4">>,
      <<"@", "@", " ", "-", "1", ",", " ", "+", "3", " ", "@", "@">>,
      <<"x", " ", "@", "@", " ", "-", "1", " ", "+", "2", " ", "@", "@">> }

\* The counts of the generated headers: left out, small, or of two digits
HeaderCounts == {Omitted} \cup 0..MaxCount \cup {13}

HeaderFields ==
    [valid : {TRUE}, a : 0..MaxStart, b : HeaderCounts,
     c : 0..MaxStart, d : HeaderCounts, context : HeaderContexts]
    \cup [valid : {FALSE}, raw : RawHeaders]

\* @@ -a[,b] +c[,d] @@[context]
FormatHeader(f) ==
    IF ~f.valid THEN f.raw
    ELSE <<"@", "@", " ", "-">> \o str(f.a)
         \o (IF f.b = Omitted THEN <<>> ELSE <<",">> \o str(f.b))
         \o <<" ", "+">> \o str(f.c)
         \o (IF f.d = Omitted THEN <<>> ELSE <<",">> \o str(f.d))
         \o <<" ", "@", "@">> \o f.context

InitHunk ==
    /\ pc = "start"
    /\ IdleMapper /\ IdleUnits /\ IdleTagger /\ IdleAggregate /\ IdleMore
    /\ hdrFields \in HeaderFields
    /\ header = FormatHeader(hdrFields)
    /\ resAdd = EmptyDict
    /\ resCore = NoCoreResult

ParseHunkHeaderAdd ==
    /\ pc = "start"
    /\ resAdd' = parse_hunk_header(header)
    /\ pc' = "add"
    /\ UNCHANGED <<header, hdrFields, resCore, lmVars, cuVars, ftVars, agVars, moreVars>>

ParseHunkHeaderCore ==
    /\ pc = "start"
    /\ resCore' = core_parse_hunk_header(header)
    /\ pc' = "core"
    /\ UNCHANGED <<header, hdrFields, resAdd, lmVars, cuVars, ftVars, agVars, moreVars>>

NextHunk == ParseHunkHeaderAdd \/ ParseHunkHeaderCore

SpecHunk == InitHunk /\ [][NextHunk]_vars

\* The four numbers of a result of add_detailed_file_info.parse_hunk_header
AddQuad(r) ==
    IF {"old_start", "old_count", "new_start", "new_count"} \subseteq DOMAIN r
    THEN <<r.old_start, r.old_count, r.new_start, r.new_count>>
    ELSE <<>>

CoreQuad(r) == <<r.from_line, r.from_len, r.to_line, r.to_len>>

\* What the header's numbers say, an omitted count read as 1
FieldQuad(f) ==
    <<f.a, IF f.b = Omitted THEN 1 ELSE f.b, f.c, IF f.d = Omitted THEN 1 ELSE f.d>>

\* C1: for every valid header @@ -a[,b] +c[,d] @@ both parsers return exactly
\* a, b, c, d, with an omitted count reported as 1.
C1_HeaderRecovered ==
    hdrFields.valid =>
        /\ pc = "add" => AddQuad(resAdd) = FieldQuad(hdrFields)
        /\ pc = "core" => CoreQuad(resCore) = FieldQuad(hdrFields)

\* C1 witness: a header with an omitted old count, a two-digit start and a
\* given new count of 0 has been parsed by the core parser.
C1_Witness ==
    /\ pc = "core"
    /\ hdrFields.valid /\ hdrFields.b = Omitted /\ hdrFields.a = 10 /\ hdrFields.d = 0
    /\ resCore.from_len = 1 /\ resCore.to_len = 0

Scenario1Header ==
    <<"@", "@", " ", "-", "1", "0", ",", "0", " ", "+", "1", "0", ",", "3", " ", "@", "@">>

\* C2 as claimed: @@ -10,0 +10,3 @@ parses to old_start 10, old_count 1,
\* new_start 10, new_count 3.
C2_Scenario1_AsClaimed ==
    header = Scenario1Header =>
        /\ pc = "add" => AddQuad(resAdd) = <<10, 1, 10, 3>>
        /\ pc = "core" => CoreQuad(resCore) = <<10, 1, 10, 3>>

\* C2 amended: @@ -10,0 +10,3 @@ parses to old_start 10, old_count 0,
\* new_start 10, new_count 3: the count that is written is the count
\* reported, with no context stored.
C2_Scenario1 ==
    header = Scenario1Header =>
        /\ pc = "add" => resAdd = [old_start |-> 10, old_count |-> 0,
                                   new_start |-> 10, new_count |-> 3]
        /\ pc = "core" => CoreQuad(resCore) = <<10, 0, 10, 3>>

\* C2 witness: the scenario's header has been parsed.
C2_Witness == header = Scenario1Header /\ pc = "add" /\ resAdd # EmptyDict

\* C21: the result of parse_hunk_header has a context key exactly when the
\* text after the closing @@, stripped, is not empty, and a stored context
\* is that stripped text: a header followed by blanks alone has no context.
C21_ContextOnlyIfNonEmpty ==
    (pc = "add" /\ hdrFields.valid) =>
        /\ ("context" \in DOMAIN resAdd) <=> (strip(hdrFields.context) # NoText)
        /\ "context" \in DOMAIN resAdd =>
              /\ resAdd["context"] # NoText
              /\ resAdd["context"] = strip(hdrFields.context)

(***************************************************************************)
(* ChangedLineMapper, get_commit_file_changes._parse_changed_lines_from_   *)
(* patch. A patch is the sequence of lines patch.splitlines() yields.      *)
(***************************************************************************)
IsHunkLine(line) == StartsWith(line, <<"@", "@">>)

IsAddedLine(line) ==
    StartsWith(line, <<"+">>) /\ ~StartsWith(line, <<"+", "+", "+">>)

IsRemovedLine(line) ==
    StartsWith(line, <<"-">>) /\ ~StartsWith(line, <<"-", "-", "-">>)

\* A removed line advancing the counter like a context line
PatchLineStep_removed_counts(st, line) ==
    IF IsHunkLine(line)
    THEN LET match == HunkNumbersAt(line, 1)
         IN  IF match.ok
             THEN [st EXCEPT !.current_line = int(match.g3)]
             ELSE st
    ELSE IF IsAddedLine(line)
    THEN [changed_lines |-> st.changed_lines \cup {st.current_line},
          current_line |-> st.current_line + 1]
    ELSE [st EXCEPT !.current_line = st.current_line + 1]

\* The loop body: one line of the patch, on the set and the counter so far
PatchLineStep(st, line) ==
    IF IsHunkLine(line)
    THEN LET match == HunkNumbersAt(line, 1)
         IN  IF match.ok
             THEN [st EXCEPT !.current_line = int(match.g3)]
             ELSE st
    ELSE IF IsAddedLine(line)
    THEN [changed_lines |-> st.changed_lines \cup {st.current_line},
          current_line |-> st.current_line + 1]
    ELSE IF IsRemovedLine(line)
    THEN st
    ELSE [st EXCEPT !.current_line = st.current_line + 1]

RECURSIVE WalkPatch(_, _)
WalkPatch(lines, n) ==
    IF n = 0 THEN [changed_lines |-> {}, current_line |-> 0]
    ELSE PatchLineStep(WalkPatch(lines, n - 1), lines[n])

_parse_changed_lines_from_patch(lines) ==
    WalkPatch(lines, Len(lines)).changed_lines

(***************************************************************************)
(* The line mapper applied to patches.                                     *)
(***************************************************************************)
Scenario2Patch ==
    << <<"@", "@", " ", "-", "1", ",", "2", " ", "+", "1", ",", "3", " ", "@", "@">>,
       <<"+", "a", "d", "d", "e", "d", " ", "l", "i", "n", "e">>,
       <<"+", "a", "n", "o", "t", "h", "e", "r">>,
       <<"-", " ", "r", "e", "m", "o", "v", "e", "d", " ", "l", "i", "n", "e">>,
       <<" ", "c", "o", "n", "t", "e", "x", "t">> >>

PatchLines ==
    { Scenario2Patch[1], Scenario2Patch[2], Scenario2Patch[4], Scenario2Patch[5],
      <<"@", "@", " ", "-", "5", " ", "+", "7", " ", "@", "@", " ", "f", "(", ")">>,
      <<"@", "@", " ", "g", "a", "r", "b", "a", "g", "e">>,
      <<"+", "+", "+", " ", "b", "/", "f">>,
      <<"-", "-", "-", " ", "a", "/", "f">> }

SeqsUpTo(S, n) == UNION {[1..k -> S] : k \in 0..n}

PatchInputs == SeqsUpTo(PatchLines, MaxPatchLen) \cup {Scenario2Patch}

InitMapper ==
    /\ pc = "start"
    /\ IdleHunk /\ IdleUnits /\ IdleTagger /\ IdleAggregate /\ IdleMore
    /\ patch \in PatchInputs
    /\ changed_lines = {}

ParseChangedLines ==
    /\ pc = "start"
    /\ changed_lines' = _parse_changed_lines_from_patch(patch)
    /\ pc' = "mapped"
    /\ UNCHANGED <<patch, hhVars, cuVars, ftVars, agVars, moreVars>>

NextMapper == ParseChangedLines

SpecMapper == InitMapper /\ [][NextMapper]_vars

\* C3 as claimed: for every patch the returned set holds no line number <= 0
\* and is no larger than the number of lines that begin with +.
C3_PositiveAndBounded ==
    pc = "mapped" =>
        /\ \A n \in changed_lines : n > 0
        /\ Cardinality(changed_lines)
             <= Cardinality({i \in 1..Len(patch) : StartsWith(patch[i], <<"+">>)})

\* The index of the last parsable hunk header before line j, 0 if there is none
LastHeaderBefore(lines, j, parsable(_)) ==
    LET hs == {i \in 1..(j - 1) : parsable(lines[i])}
    IN  IF hs = {} THEN 0 ELSE CHOOSE i \in hs : \A k \in hs : k <= i

\* The new-file line number of line j: the new_start of the last parsable
\* header before it (0 without one) plus the lines in between that count
LineNumberAt(lines, j, counts(_)) ==
    LET ParsableHeader(l) == IsHunkLine(l) /\ HunkNumbersAt(l, 1).ok
        h == LastHeaderBefore(lines, j, ParsableHeader)
        base == IF h = 0 THEN 0 ELSE int(HunkNumbersAt(lines[h], 1).g3)
    IN  base + Cardinality({i \in (h + 1)..(j - 1) : counts(lines[i])})

\* The walk as C4 states it: every line that is neither a parsable header nor
\* a removed line advances the counter
CountsAsClaimed(l) ==
    /\ ~(IsHunkLine(l) /\ HunkNumbersAt(l, 1).ok)
    /\ ~IsRemovedLine(l)

\* The walk of the code: no line that begins with @@ advances the counter
CountsInCode(l) == ~IsHunkLine(l) /\ ~IsRemovedLine(l)

AddedLineNumbers(lines, counts(_)) ==
    {LineNumberAt(lines, j, counts) :
        j \in {i \in 1..Len(lines) : ~IsHunkLine(lines[i]) /\ IsAddedLine(lines[i])}}

UnderUnparsedHeader(lines, j) ==
    LET hs == {i \in 1..(j - 1) : IsHunkLine(lines[i])}
    IN  /\ hs # {}
        /\ ~HunkNumbersAt(lines[CHOOSE i \in hs : \A k \in hs : k <= i], 1).ok

\* C16: every line number of the result is the counter at a + line that does
\* not lie between a @@ line that did not parse and the next header that
\* does: the + lines of an unparsed hunk contribute nothing.
C16_UnparsedHunkSkipped ==
    pc = "mapped" =>
        changed_lines \subseteq
            {WalkPatch(patch, j - 1).current_line :
                j \in {i \in 1..Len(patch) :
                         /\ IsAddedLine(patch[i])
                         /\ ~UnderUnparsedHeader(patch, i)}}

(***************************************************************************)
(* CodeUnitExtractor, get_commit_file_changes._get_changed_functions.      *)
(* The source is the sequence of lines source.split("\n") yields.          *)
(***************************************************************************)
\* line.count(ch)
CountChar(line, ch) == Cardinality({i \in 1..Len(line) : line[i] = ch})

\* `not text` for a text given by its lines
IsEmptyText(lines) == lines = <<>> \/ lines = <<NoText>>

\* The first of the alternatives kws found at position p, NoText if none is
RECURSIVE FirstKeywordAt(_, _, _)
FirstKeywordAt(line, p, kws) ==
    IF kws = <<>> THEN NoText
    ELSE IF HasLit(line, p, Head(kws)) THEN Head(kws)
    ELSE FirstKeywordAt(line, p, Tail(kws))

ContractKeywords ==
    << <<"c", "o", "n", "t", "r", "a", "c", "t">>,
       <<"i", "n", "t", "e", "r", "f", "a", "c", "e">>,
       <<"l", "i", "b", "r", "a", "r", "y">> >>

SpecialKeywords ==
    << <<"c", "o", "n", "s", "t", "r", "u", "c", "t", "o", "r">>,
       <<"r", "e", "c", "e", "i", "v", "e">>,
       <<"f", "a", "l", "l", "b", "a", "c", "k">> >>

\* ^\s*(contract|interface|library)\s+([a-zA-Z0-9_]+)\s*(.*)\{?
\* The greedy (.*) takes the rest of the line, an opening brace included, and
\* \{? matches nothing.
ContractPattern(line) ==
    LET p0 == RunEnd(line, 1, Whitespace)
        kw == FirstKeywordAt(line, p0, ContractKeywords)
        p1 == p0 + Len(kw)
        p2 == RunEnd(line, p1, Whitespace)
        p3 == RunEnd(line, p2, IdentChar)
        p4 == RunEnd(line, p3, Whitespace)
    IN  IF kw # NoText /\ p2 > p1 /\ p3 > p2
        THEN [ok |-> TRUE, ctype |-> kw, cname |-> Slice(line, p2, p3),
              crest |-> Slice(line, p4, Len(line) + 1)]
        ELSE [ok |-> FALSE]

\* ^\s*<kw>\s+([a-zA-Z0-9_]+)\s*\(   for kw function and modifier
DeclPattern(line, kw) ==
    LET p0 == RunEnd(line, 1, Whitespace)
        p1 == p0 + Len(kw)
        p2 == RunEnd(line, p1, Whitespace)
        p3 == RunEnd(line, p2, IdentChar)
        p4 == RunEnd(line, p3, Whitespace)
    IN  IF HasLit(line, p0, kw) /\ p2 > p1 /\ p3 > p2 /\ HasLit(line, p4, <<"(">>)
        THEN [ok |-> TRUE, group1 |-> Slice(line, p2, p3)]
        ELSE [ok |-> FALSE]

\* ^\s*(constructor|receive|fallback)\s*\(
SpecialPattern(line) ==
    LET p0 == RunEnd(line, 1, Whitespace)
        kw == FirstKeywordAt(line, p0, SpecialKeywords)
        p1 == RunEnd(line, p0 + Len(kw), Whitespace)
    IN  IF kw # NoText /\ HasLit(line, p1, <<"(">>)
        THEN [ok |-> TRUE, group1 |-> kw]
        ELSE [ok |-> FALSE]

\* fn_match = fm or sm or mm
FnMatch(line) ==
    LET fm == DeclPattern(line, <<"f", "u", "n", "c", "t", "i", "o", "n">>)
        sm == SpecialPattern(line)
        mm == DeclPattern(line, <<"m", "o", "d", "i", "f", "i", "e", "r">>)
    IN  IF fm.ok THEN fm ELSE IF sm.ok THEN sm ELSE mm

\* The declarations of line i pushed on the stack
PushDeclarations(st, i, line) ==
    LET cm == ContractPattern(line)
        signature == IF cm.crest # NoText
                     THEN cm.cname \o <<" ">> \o strip(cm.crest)
                     ELSE cm.cname
        st1 == IF cm.ok
               THEN [st EXCEPT
                       !.current_contract = cm.cname,
                       !.stack = Append(@, [name |-> signature, contract |-> NoText,
                                            start |-> i, depth |-> 0,
                                            started |-> TRUE, is_contract |-> TRUE])]
               ELSE st
        fn == FnMatch(line)
    IN  IF fn.ok
        THEN [st1 EXCEPT
                !.stack = Append(@, [name |-> fn.group1,
                                     contract |-> st1.current_contract,
                                     start |-> i, depth |-> 0,
                                     started |-> FALSE, is_contract |-> FALSE])]
        ELSE st1

\* Track braces: every unit on the stack reads the whole line
TrackBraces(f, line) ==
    LET started == f.started \/ CountChar(line, "{") > 0
    IN  [f EXCEPT !.started = started,
                  !.depth = IF started
                            THEN @ + CountChar(line, "{") - CountChar(line, "}")
                            ELSE @]

IsCompleted(f) == f.started /\ f.depth = 0

\* any(l in changed_lines for l in range(start, end + 1))
ContainsChange(start, end, changed) == \E l \in start..end : l \in changed

\* The bare name for every unit: the enclosing contract is left out
EntryName_unqualified(f) == f.name

\* The name a unit is entered under
EntryName(f) ==
    IF f.is_contract THEN f.name
    ELSE IF f.contract # NoText THEN f.contract \o <<":", ":">> \o f.name
    ELSE f.name

\* The loop body for line i
ScanLine(st, i, line, changed) ==
    LET st1 == PushDeclarations(st, i, line)
        tracked == [k \in 1..Len(st1.stack) |-> TrackBraces(st1.stack[k], line)]
        completed == SelectSeq(tracked, IsCompleted)
        Changed(f) == ContainsChange(f.start, i, changed)
        Open(f) == ~IsCompleted(f)
        emitted == SelectSeq(completed, Changed)
    IN  [entries |-> st1.entries \o [k \in 1..Len(emitted) |-> EntryName(emitted[k])],
         current_contract |-> st1.current_contract,
         stack |-> SelectSeq(tracked, Open),
         closed |-> st1.closed \o
                    [k \in 1..Len(completed) |->
                        [entry |-> EntryName(completed[k]),
                         start |-> completed[k].start, end |-> i,
                         is_contract |-> completed[k].is_contract,
                         emitted |-> Changed(completed[k])]]]

RECURSIVE ScanSource(_, _, _)
ScanSource(lines, n, changed) ==
    IF n = 0
    THEN [entries |-> <<>>, current_contract |-> NoText, stack |-> <<>>,
          closed |-> <<>>]
    ELSE ScanLine(ScanSource(lines, n - 1, changed), n, lines[n], changed)

\* The scan of _get_changed_functions, with the units it closed
ChangedFunctionsScan(src, ptch) ==
    IF IsEmptyText(src) \/ IsEmptyText(ptch)
    THEN [entries |-> <<>>, current_contract |-> NoText, stack |-> <<>>,
          closed |-> <<>>]
    ELSE ScanSource(src, Len(src), _parse_changed_lines_from_patch(ptch))

_get_changed_functions(src, ptch) == ChangedFunctionsScan(src, ptch).entries

(***************************************************************************)
(* The extractor applied to source texts and one-line patches.             *)
(***************************************************************************)
Scenario3Source ==
    << <<"c", "o", "n", "t", "r", "a", "c", "t", " ", "C", " ", "{">>,
       <<" ", "f", "u", "n", "c", "t", "i", "o", "n", " ", "f", "(", ")", " ", "{">>,
       <<" ", "x", " ", "=", " ", "1", ";">>,
       <<" ", "}">>,
       <<"}">> >>

\* The same contract with its opening brace on a line of its own
BraceOnNextLineSource ==
    << <<"c", "o", "n", "t", "r", "a", "c", "t", " ", "C">>,
       <<"{">>,
       Scenario3Source[2], Scenario3Source[3], Scenario3Source[4],
       Scenario3Source[5] >>

SourceLines ==
    { Scenario3Source[1], Scenario3Source[2], Scenario3Source[3],
      Scenario3Source[4], BraceOnNextLineSource[1], BraceOnNextLineSource[2],
      <<" ", "f", "u", "n", "c", "t", "i", "o", "n", " ", "g", "(", ")", ";">> }

SourceInputs ==
    (SeqsUpTo(SourceLines, MaxSrcLen) \ {<<>>})
    \cup {Scenario3Source, BraceOnNextLineSource}

\* The patch that adds line k of the new file: @@ -k +k @@ and one + line
OneLinePatch(k) ==
    << <<"@", "@", " ", "-">> \o str(k) \o <<" ", "+">> \o str(k) \o <<" ", "@", "@">>,
       <<"+", "x">> >>

SourcePatchInputs == {OneLinePatch(k) : k \in 1..(MaxSrcLen + 2)}

InitUnits ==
    /\ pc = "start"
    /\ IdleHunk /\ IdleMapper /\ IdleTagger /\ IdleAggregate /\ IdleMore
    /\ source \in SourceInputs
    /\ src_patch \in SourcePatchInputs
    /\ entries = <<>>
    /\ closed_units = <<>>

GetChangedFunctions ==
    /\ pc = "start"
    /\ entries' = _get_changed_functions(source, src_patch)
    /\ closed_units' = ChangedFunctionsScan(source, src_patch).closed
    /\ pc' = "extracted"
    /\ UNCHANGED <<source, src_patch, hhVars, lmVars, ftVars, agVars, moreVars>>

NextUnits == GetChangedFunctions

SpecUnits == InitUnits /\ [][NextUnits]_vars

\* The brace depth of the source after line k, counted from its first line
RECURSIVE DepthAfter(_, _)
DepthAfter(src, k) ==
    IF k = 0 THEN 0
    ELSE DepthAfter(src, k - 1)
         + CountChar(src[k], "{") - CountChar(src[k], "}")

FunctionKeyword == <<"f", "u", "n", "c", "t", "i", "o", "n">>

\* The ways (one at most) src is one contract, declared on line c, containing
\* one function, declared on line f, its body opened on line open and closed
\* on line close, the contract closed on the later line cclose
OneFunctionShapes(src) ==
    LET n == Len(src)
        cs == {i \in 1..n : ContractPattern(src[i]).ok}
        fs == {i \in 1..n : FnMatch(src[i]).ok}
        FirstBrace(i) == Min({k \in i..n : CountChar(src[k], "{") > 0} \cup {n + 1})
        FirstAtMost(i, d) == Min({k \in i..n : DepthAfter(src, k) <= d} \cup {n + 1})
    IN  IF Cardinality(cs) # 1 \/ Cardinality(fs) # 1 THEN {}
        ELSE LET c == CHOOSE i \in cs : TRUE
                 f == CHOOSE i \in fs : TRUE
                 open == FirstBrace(f)
                 close == FirstAtMost(open + 1, 1)
                 cclose == FirstAtMost(close + 1, 0)
             IN  IF /\ DeclPattern(src[f], FunctionKeyword).ok
                    /\ \A k \in 1..n : DepthAfter(src, k) >= 0
                    /\ DepthAfter(src, c - 1) = 0
                    /\ FirstBrace(c) < f
                    /\ DepthAfter(src, f - 1) = 1
                    /\ \A k \in f..(open - 1) : DepthAfter(src, k) = 1
                    /\ open <= n /\ DepthAfter(src, open) >= 2
                    /\ close <= n /\ DepthAfter(src, close) = 1
                    /\ cclose <= n /\ DepthAfter(src, cclose) = 0
                 THEN {[c |-> c, f |-> f, open |-> open, close |-> close,
                        cclose |-> cclose]}
                 ELSE {}

\* <Contract>::<function> of a shape
QualifiedName(src, sh) ==
    ContractPattern(src[sh.c]).cname \o <<":", ":">>
        \o DeclPattern(src[sh.f], FunctionKeyword).group1

\* The changed line set is one line inside the function body of the shape
OneChangeInBody(sh, ptch) ==
    \E l \in (sh.open + 1)..(sh.close - 1) :
        _parse_changed_lines_from_patch(ptch) = {l}

EmittedUnits == SelectSeq(closed_units, LAMBDA u : u.emitted)

\* The line range of outer encloses that of inner, and is another range
Encloses(outer, inner) ==
    /\ outer.start <= inner.start /\ inner.end <= outer.end
    /\ <<outer.start, outer.end>> # <<inner.start, inner.end>>

\* C6 as claimed: every closed unit that overlaps the changed lines is in the
\* returned list, and every returned unit comes before every returned unit
\* whose line range encloses it.
C6_InnermostFirst ==
    pc = "extracted" =>
        /\ entries = [k \in 1..Len(EmittedUnits) |-> EmittedUnits[k].entry]
        /\ \A k \in 1..Len(closed_units) :
              ContainsChange(closed_units[k].start, closed_units[k].end,
                             _parse_changed_lines_from_patch(src_patch))
                  => closed_units[k].emitted
        /\ \A i, j \in 1..Len(EmittedUnits) :
              Encloses(EmittedUnits[j], EmittedUnits[i]) => i < j

\* The lines of src that declare a unit
DeclarationLines(src) ==
    {i \in 1..Len(src) : ContractPattern(src[i]).ok \/ FnMatch(src[i]).ok}

\* Some line of s..i holds an opening brace, and the depth counted from the
\* first such line is zero after line i and after no earlier line
ClosesAt(src, s, i) ==
    LET opens == {k \in s..i : CountChar(src[k], "{") > 0}
        from == DepthAfter(src, Min(opens) - 1)
    IN  /\ opens # {}
        /\ DepthAfter(src, i) = from
        /\ \A k \in Min(opens)..(i - 1) : DepthAfter(src, k) # from

\* C17: a unit declared on line s is closed at line i exactly when some line
\* of s..i held its opening brace and its depth first returns to zero at i;
\* so a contract whose brace is on a later line is not closed where declared.
C17_ClosedAtMatchingBrace ==
    pc = "extracted" =>
        \A s \in DeclarationLines(source) : \A i \in s..Len(source) :
            (\E k \in 1..Len(closed_units) :
                closed_units[k].start = s /\ closed_units[k].end = i)
              <=> ClosesAt(source, s, i)

\* C18: the unit declared on line s is emitted exactly when it is closed at
\* some line i and a line of s..i is a changed line; a unit whose closing
\* brace is never found is not emitted, and every entry of the result is the
\* entry of an emitted unit.
C18_EmittedIffClosedAndChanged ==
    pc = "extracted" =>
        /\ entries = [k \in 1..Len(EmittedUnits) |-> EmittedUnits[k].entry]
        /\ \A s \in DeclarationLines(source) :
              (\E k \in 1..Len(EmittedUnits) : EmittedUnits[k].start = s)
                <=> \E i \in s..Len(source) :
                       /\ ClosesAt(source, s, i)
                       /\ ContainsChange(s, i,
                              _parse_changed_lines_from_patch(src_patch))

\* A contract declared before line s whose braces have not matched before s
ContractOpenAt(src, s) ==
    \E c \in 1..(s - 1) :
        /\ ContractPattern(src[c]).ok
        /\ \A i \in c..(s - 1) : ~ClosesAt(src, c, i)

\* C19: an emitted function unit declared on a line where no contract is
\* open, so also one declared after the closing brace of the contract before
\* it, is entered under its bare name, not as Contract::name.
C19_QualifiedOnlyInsideContract ==
    pc = "extracted" =>
        \A k \in 1..Len(EmittedUnits) :
            LET u == EmittedUnits[k]
            IN  (~u.is_contract /\ ~ContractOpenAt(source, u.start))
                    => u.entry = FnMatch(source[u.start]).group1

\* C20: an emitted contract, interface or library unit is entered under the
\* identifier it declares and nothing more: C for the line `contract C {`.
C20_ContractUnderIdentifier ==
    pc = "extracted" =>
        \A k \in 1..Len(EmittedUnits) :
            EmittedUnits[k].is_contract =>
                EmittedUnits[k].entry =
                    ContractPattern(source[EmittedUnits[k].start]).cname

\* Line s declares a function or modifier without a body: it ends with ;
\* and opens no brace
Bodiless(src, s) ==
    /\ FnMatch(src[s]).ok
    /\ CountChar(src[s], "{") = 0
    /\ src[s][Len(src[s])] = ";"

\* C28: a unit counts the braces from its own opening brace on and no
\* others: no emitted unit is a function or modifier declared without a
\* body, whatever lines after the declaration are changed.
C28_BodilessNeverEmitted ==
    pc = "extracted" =>
        \A k \in 1..Len(EmittedUnits) :
            ~Bodiless(source, EmittedUnits[k].start)

(***************************************************************************)
(* HunkFunctionTagger, core.commit_operations.extract_functions_from_hunk. *)
(***************************************************************************)
AsciiDigits == <<"0", "1", "2", "3", "4", "5", "6", "7", "8", "9">>
AsciiUpper ==
    <<"A", "B", "C", "D", "E", "F", "G", "H", "I", "J", "K", "L", "M",
      "N", "O", "P", "Q", "R", "S", "T", "U", "V", "W", "X", "Y", "Z">>
AsciiLower ==
    <<"a", "b", "c", "d", "e", "f", "g", "h", "i", "j", "k", "l", "m",
      "n", "o", "p", "q", "r", "s", "t", "u", "v", "w", "x", "y", "z">>

IndexIn(seq, c) == CHOOSE i \in 1..Len(seq) : seq[i] = c

\* ord(c), the code point of a character of [A-Za-z0-9_] or of a colon
ord(c) ==
    IF c \in Digit THEN 47 + IndexIn(AsciiDigits, c)
    ELSE IF c \in Upper THEN 64 + IndexIn(AsciiUpper, c)
    ELSE IF c = "_" THEN 95
    ELSE IF c = ":" THEN 58
    ELSE 96 + IndexIn(AsciiLower, c)

\* a < b on str: the first differing code point decides, a proper prefix is
\* the smaller
RECURSIVE StrLess(_, _)
StrLess(a, b) ==
    IF a = <<>> THEN b # <<>>
    ELSE IF b = <<>> THEN FALSE
    ELSE IF a[1] = b[1] THEN StrLess(Tail(a), Tail(b))
    ELSE ord(a[1]) < ord(b[1])

\* A mutation of sorted: the largest name first
RECURSIVE sorted_descending(_)
sorted_descending(S) ==
    IF S = {} THEN <<>>
    ELSE LET m == CHOOSE x \in S : \A y \in S \ {x} : StrLess(y, x)
         IN  <<m>> \o sorted_descending(S \ {m})

\* sorted(S) of a set of str
RECURSIVE sorted(_)
sorted(S) ==
    IF S = {} THEN <<>>
    ELSE LET m == CHOOSE x \in S : \A y \in S \ {x} : StrLess(x, y)
         IN  <<m>> \o sorted(S \ {m})

DeclKeywords ==
    << <<"f", "u", "n", "c", "t", "i", "o", "n">>,
       <<"m", "o", "d", "i", "f", "i", "e", "r">> >>

\* FUNC_RE = \b(function|modifier)\s+([A-Za-z0-9_]+)\s*\(  tried at position p.
\* Both keywords begin with a word character, so \b holds at p exactly when
\* no word character comes before p.
FuncPatternAt(clean, p) ==
    LET kw == FirstKeywordAt(clean, p, DeclKeywords)
        p1 == p + Len(kw)
        p2 == RunEnd(clean, p1, Whitespace)
        p3 == RunEnd(clean, p2, IdentChar)
        p4 == RunEnd(clean, p3, Whitespace)
    IN  IF /\ p = 1 \/ clean[p - 1] \notin IdentChar
           /\ kw # NoText /\ p2 > p1 /\ p3 > p2
           /\ HasLit(clean, p4, <<"(">>)
        THEN [ok |-> TRUE, group2 |-> Slice(clean, p2, p3)]
        ELSE [ok |-> FALSE]

\* FUNC_RE.search(clean): the match at the leftmost position that has one
FuncSearch(clean) ==
    LET ps == {p \in 1..Len(clean) : FuncPatternAt(clean, p).ok}
    IN  IF ps = {} THEN [ok |-> FALSE] ELSE FuncPatternAt(clean, Min(ps))

\* line.lstrip("+- ").strip()
CleanLine(line) == strip(lstrip(line, {"+", "-", " "}))

\* One turn of the loop over the hunk lines
TagLine(seen_names, line) ==
    LET m == FuncSearch(CleanLine(line))
    IN  IF m.ok THEN seen_names \cup {m.group2} ELSE seen_names

\* seen after the first n lines
RECURSIVE SeenAfter(_, _)
SeenAfter(lines, n) ==
    IF n = 0 THEN {} ELSE TagLine(SeenAfter(lines, n - 1), lines[n])

extract_functions_from_hunk(lines) == sorted(SeenAfter(lines, Len(lines)))

(***************************************************************************)
(* The tagger run on one hunk.                                             *)
(***************************************************************************)
HunkLines ==
    { <<"+", " ", "f", "u", "n", "c", "t", "i", "o", "n", " ", "b", "(", ")", " ", "{">>,
      <<"-", " ", "f", "u", "n", "c", "t", "i", "o", "n", " ", "a", "(", "u", "i", "n", "t", " ", "x", ")">>,
      <<" ", "m", "o", "d", "i", "f", "i", "e", "r", " ", "B", "(", ")", " ", "{">>,
      <<"+", " ", "x", " ", "=", " ", "1", ";">>,
      <<"+", "f", "u", "n", "c", "t", "i", "o", "n", " ", "a", "(", ")", " ", "{", "}", " ",
        "f", "u", "n", "c", "t", "i", "o", "n", " ", "c", "(", ")", " ", "{", "}">>,
      <<"+", " ", "f", "u", "n", "c", "t", "i", "o", "n", " ", "a", "b", " ", "(", ")">>,
      <<"+", "m", "y", "f", "u", "n", "c", "t", "i", "o", "n", " ", "z", "(">> }

HunkInputs == SeqsUpTo(HunkLines, MaxHunkLen)

InitTagger ==
    /\ pc = "start"
    /\ IdleHunk /\ IdleMapper /\ IdleUnits /\ IdleAggregate /\ IdleMore
    /\ hunk_lines \in HunkInputs
    /\ tagged = <<>>

ExtractFunctionsFromHunk ==
    /\ pc = "start"
    /\ tagged' = extract_functions_from_hunk(hunk_lines)
    /\ pc' = "tagged"
    /\ UNCHANGED <<hunk_lines, hhVars, lmVars, cuVars, agVars, moreVars>>

NextTagger == ExtractFunctionsFromHunk

SpecTagger == InitTagger /\ [][NextTagger]_vars

Range(f) == {f[i] : i \in DOMAIN f}

\* The pattern function|modifier <name>( read as a statement about the text:
\* the names n such that clean holds, from position p on and not preceded by
\* a word character, a keyword, at least one whitespace character, n, any
\* whitespace and an opening parenthesis
DeclaredAt(clean, p) ==
    LET n == Len(clean)
        After(kw) == p + Len(kw)
        NameSpans(kw) ==
            {sp \in ((After(kw) + 1)..n) \X ((After(kw) + 2)..n) :
                /\ sp[1] < sp[2]
                /\ \A q \in After(kw)..(sp[1] - 1) : clean[q] \in Whitespace
                /\ \A q \in sp[1]..(sp[2] - 1) : clean[q] \in IdentChar
                /\ \E j \in sp[2]..n :
                      /\ \A q \in sp[2]..(j - 1) : clean[q] \in Whitespace
                      /\ clean[j] = "("}
    IN  IF p > 1 /\ clean[p - 1] \in IdentChar THEN {}
        ELSE UNION {{Slice(clean, sp[1], sp[2]) : sp \in NameSpans(DeclKeywords[k])} :
                        k \in {k \in 1..Len(DeclKeywords) : HasLit(clean, p, DeclKeywords[k])}}

\* The names a line contributes: those of its leftmost declaration
NamesOfLine(line) ==
    LET clean == CleanLine(line)
        ps == {p \in 1..Len(clean) : DeclaredAt(clean, p) # {}}
    IN  IF ps = {} THEN {} ELSE DeclaredAt(clean, Min(ps))

\* The lists with the same set of lines as lines: its rearrangements, and
\* lines followed by one of its own lines again
SameLineSet(lines) ==
    {other \in [1..Len(lines) -> Range(lines)] : Range(other) = Range(lines)}
        \cup {lines \o <<lines[i]>> : i \in 1..Len(lines)}

all_queries == <<"transfer", "owner">>

\* commit.html_url, by its segments between slashes
CommitUrl(sha) == <<"https:", "", "github.com", "owner", "name", "commit", sha>>

\* url.split("/")[-1]
LastSegment(url) == url[Len(url)]

\* search_commit_for_query as the parallel searches call it (the second
\* definition of the module replaces the first).  re.search(query, text) is
\* read off the commit: message_hits and patch_hits hold the queries found.
search_commit_for_query(commit, query) ==
    IF query \in commit.message_hits
    THEN LET hit == SelectSeq(commit.files, LAMBDA f : query \in f.patch_hits)
         IN  [i \in 1..Len(hit) |->
                 [commit_url |-> commit.html_url,
                  commit_message |-> commit.message,
                  file |-> hit[i].filename,
                  query_match |-> query]]
    ELSE <<>>

\* filter_hunks_by_query(repo.get_commit(sha), all_queries): the hunks of the
\* commit sha that hold a query
filter_hunks_by_query(sha, queries) == [hunks_of |-> sha, holding |-> queries]

\* extract_commit_hunks(commit): the files and hunks of the commit sha
extract_commit_hunks(sha) == [hunks_of |-> sha]

\* A mutation of GithubMatchStep: no look at seen
GithubMatchStep_unchecked(st, m) ==
    [seen |-> st.seen \cup {m.commit_url},
     results |-> Append(st.results,
         [commit_url |-> m.commit_url,
          message |-> m.commit_message,
          query_match |-> m.query_match,
          relevant_hunks |->
              filter_hunks_by_query(LastSegment(m.commit_url), all_queries)])]

\* search_github_commits_parallel, the body of `for m in matches`
GithubMatchStep(st, m) ==
    IF m.commit_url \in st.seen THEN st
    ELSE [seen |-> st.seen \cup {m.commit_url},
          results |-> Append(st.results,
              [commit_url |-> m.commit_url,
               message |-> m.commit_message,
               query_match |-> m.query_match,
               relevant_hunks |->
                   filter_hunks_by_query(LastSegment(m.commit_url), all_queries)])]

\* search_github_commits_parallel, what one completed future does to seen
\* and results
RECURSIVE MergeGithubMatches(_, _)
MergeGithubMatches(st, matches) ==
    IF matches = <<>> THEN st
    ELSE MergeGithubMatches(GithubMatchStep(st, Head(matches)), Tail(matches))

\* search_pr_commits_parallel, the body of `for m in matches`.  commit is the
\* variable of the loop that submitted the futures; that loop has ended.
PrMatchStep(st, m, commit) ==
    IF m.commit_url \notin st.seen
    THEN [seen |-> st.seen \cup {m.commit_url},
          results |-> Append(st.results,
              [commit_url |-> m.commit_url,
               message |-> m.commit_message,
               query_match |-> m.query_match,
               files_changed |-> extract_commit_hunks(commit.sha)])]
    ELSE st

RECURSIVE MergePrMatches(_, _, _)
MergePrMatches(st, matches, commit) ==
    IF matches = <<>> THEN st
    ELSE MergePrMatches(PrMatchStep(st, Head(matches), commit), Tail(matches), commit)

\* s.endswith(lit)
EndsWith(s, lit) ==
    Len(s) >= Len(lit) /\ SubSeq(s, Len(s) - Len(lit) + 1, Len(s)) = lit

\* https://github.com/{owner}/{repo}/blob/{sha}/{path}, by its segments
BlobUrl(sha, path) == <<"https:", "", "github.com", "owner", "repo", "blob", sha, path>>

\* process_commit, the dict entry made for one file of the commit.  The
\* changed units of the fetched contents are read off the file:
\* units_before and units_after are what _get_changed_functions returns for
\* the contents at the parent and at the commit; an added file has no
\* content before and a removed file none after.
FileEntry(commit, file) ==
    LET parent_sha == IF commit.parents # <<>> THEN commit.parents[1] ELSE commit.sha
        before_path == IF file.previous_filename # NoText
                       THEN file.previous_filename ELSE file.filename
    IN  [functions_before |->
             IF file.status # "added" THEN file.units_before ELSE <<>>,
         functions_after |->
             IF file.status # "removed" THEN file.units_after ELSE <<>>,
         before_blob |->
             IF file.status # "added" THEN BlobUrl(parent_sha, before_path) ELSE NoText,
         after_blob |->
             IF file.status # "removed" THEN BlobUrl(commit.sha, file.filename) ELSE NoText]

\* process_commit, result after the first n files of the commit
RECURSIVE ProcessFiles(_, _)
ProcessFiles(commit, n) ==
    IF n = 0 THEN EmptyDict
    ELSE LET file == commit.files[n]
         IN  IF ~EndsWith(file.filename, <<".", "s", "o", "l">>)
             THEN ProcessFiles(commit, n - 1)
             ELSE (file.filename :> FileEntry(commit, file))
                      @@ ProcessFiles(commit, n - 1)

process_commit(commit) ==
    IF commit.status_code # 200 THEN EmptyDict
    ELSE ProcessFiles(commit, Len(commit.files))

\* A mutation of MergeCommitFiles: a unit merged again is taken out
MergeCommitFiles_toggling(fr, commit_files) ==
    [f \in DOMAIN fr \cup DOMAIN commit_files |->
        IF f \notin DOMAIN commit_files THEN fr[f]
        ELSE LET data == commit_files[f]
                 Toggle(S, T) == (S \ T) \cup (T \ S)
                 entry == IF f \in DOMAIN fr THEN fr[f]
                          ELSE [functions_before |-> {}, functions_after |-> {},
                                before_blob |-> data.before_blob,
                                after_blob |-> data.after_blob]
             IN  [entry EXCEPT
                     !.functions_before = Toggle(@, Range(data.functions_before)),
                     !.functions_after = Toggle(@, Range(data.functions_after))]]

\* _get_pr_changes, what one completed future does to file_results
MergeCommitFiles(fr, commit_files) ==
    [f \in DOMAIN fr \cup DOMAIN commit_files |->
        IF f \notin DOMAIN commit_files THEN fr[f]
        ELSE LET data == commit_files[f]
                 entry == IF f \in DOMAIN fr THEN fr[f]
                          ELSE [functions_before |-> {}, functions_after |-> {},
                                before_blob |-> data.before_blob,
                                after_blob |-> data.after_blob]
             IN  [entry EXCEPT
                     !.functions_before = @ \cup Range(data.functions_before),
                     !.functions_after = @ \cup Range(data.functions_after)]]

\* _get_pr_changes, the conversion of the function sets to sorted lists
SortedFileResults(fr) ==
    [f \in DOMAIN fr |->
        [fr[f] EXCEPT !.functions_before = sorted(@), !.functions_after = sorted(@)]]

(***************************************************************************)
(* The aggregating functions run on a repository or a pull request.        *)
(***************************************************************************)
FileA == <<"A", ".", "s", "o", "l">>
FileB == <<"B", ".", "s", "o", "l">>
UnitF == <<"C", ":", ":", "f">>
UnitG == <<"C", ":", ":", "g">>

\* What the commits searched can hold: the queries found in the message and
\* in the patch of each file
SearchContents ==
    LET both == {"transfer", "owner"}
    IN  { [message_hits |-> both,
           files |-> <<[filename |-> FileA, patch_hits |-> both]>>],
          [message_hits |-> {"transfer"},
           files |-> <<[filename |-> FileA, patch_hits |-> {"transfer"}],
                       [filename |-> FileB, patch_hits |-> {"transfer"}]>>],
          [message_hits |-> {"transfer"},
           files |-> <<[filename |-> FileA, patch_hits |-> both]>>],
          [message_hits |-> {},
           files |-> <<[filename |-> FileA, patch_hits |-> {"owner"}]>>],
          [message_hits |-> {"owner"},
           files |-> <<[filename |-> FileA, patch_hits |-> {}]>>] }

SearchCommit(i, content) ==
    [sha |-> i, html_url |-> CommitUrl(i), message |-> <<"message", i>>,
     message_hits |-> content.message_hits, files |-> content.files]

\* What the host can answer for a commit of a pull request
PrContents ==
    LET Changed(name, status, previous, before, after) ==
            [filename |-> name, status |-> status, previous_filename |-> previous,
             units_before |-> before, units_after |-> after]
    IN  { [status_code |-> 200,
           files |-> <<Changed(FileA, "modified", NoText, <<UnitF>>, <<UnitF, UnitG>>)>>],
          [status_code |-> 200,
           files |-> <<Changed(FileA, "modified", NoText, <<UnitF>>, <<UnitF, UnitG>>),
                       Changed(FileB, "added", NoText, <<>>, <<UnitF>>)>>],
          [status_code |-> 200,
           files |-> <<Changed(FileA, "removed", NoText, <<UnitF>>, <<>>)>>],
          [status_code |-> 200,
           files |-> <<Changed(FileB, "renamed", FileA, <<UnitG>>, <<UnitG>>)>>],
          [status_code |-> 404, files |-> <<>>] }

PrCommit(i, content) ==
    [sha |-> i, parents |-> <<i - 1>>,
     status_code |-> content.status_code, files |-> content.files]

InitAggregate ==
    /\ pc = "start"
    /\ IdleHunk /\ IdleMapper /\ IdleUnits /\ IdleTagger /\ IdleMore
    /\ job \in {"github", "pr_search", "pr_changes"}
    /\ \E n \in 0..MaxCommits :
          IF job = "pr_changes"
          THEN \E content \in [1..n -> PrContents] :
                  /\ commits = [i \in 1..n |-> PrCommit(i, content[i])]
                  /\ pending = 1..n
          ELSE \E content \in [1..n -> SearchContents] :
                  /\ commits = [i \in 1..n |-> SearchCommit(i, content[i])]
                  /\ pending = (1..n) \X (1..Len(all_queries))
    /\ seen = {} /\ results = <<>> /\ matched = {}
    /\ file_results = EmptyDict /\ pr_result = EmptyDict

\* search_github_commits_parallel: as_completed hands over one more future
ConsumeGithubFuture ==
    /\ job = "github" /\ pc \in {"start", "consuming"}
    /\ \E future \in pending :
          LET matches == search_commit_for_query(commits[future[1]], all_queries[future[2]])
              st == MergeGithubMatches([seen |-> seen, results |-> results], matches)
          IN  /\ seen' = st.seen
              /\ results' = st.results
              /\ matched' = IF matches # <<>> THEN matched \cup {future} ELSE matched
              /\ pending' = pending \ {future}
    /\ pc' = "consuming"
    /\ UNCHANGED <<job, commits, file_results, pr_result, hhVars, lmVars, cuVars, ftVars, moreVars>>

\* search_pr_commits_parallel: as_completed hands over one more future
ConsumePrFuture ==
    /\ job = "pr_search" /\ pc \in {"start", "consuming"}
    /\ \E future \in pending :
          LET matches == search_commit_for_query(commits[future[1]], all_queries[future[2]])
              st == MergePrMatches([seen |-> seen, results |-> results], matches,
                                   commits[Len(commits)])
          IN  /\ seen' = st.seen
              /\ results' = st.results
              /\ matched' = IF matches # <<>> THEN matched \cup {future} ELSE matched
              /\ pending' = pending \ {future}
    /\ pc' = "consuming"
    /\ UNCHANGED <<job, commits, file_results, pr_result, hhVars, lmVars, cuVars, ftVars, moreVars>>

\* Both searches: every future has been consumed, results is returned
ReturnResults ==
    /\ job \in {"github", "pr_search"} /\ pc \in {"start", "consuming"}
    /\ pending = {}
    /\ pc' = "returned"
    /\ UNCHANGED <<agVars, hhVars, lmVars, cuVars, ftVars, moreVars>>

\* _get_pr_changes: as_completed hands over one more future
ConsumeCommitFiles ==
    /\ job = "pr_changes" /\ pc \in {"start", "consuming"}
    /\ \E future \in pending :
          /\ file_results' = MergeCommitFiles(file_results, process_commit(commits[future]))
          /\ pending' = pending \ {future}
    /\ pc' = "consuming"
    /\ UNCHANGED <<job, commits, seen, results, matched, pr_result,
                   hhVars, lmVars, cuVars, ftVars, moreVars>>

\* _get_pr_changes: every future has been consumed, the aggregate is returned
ReturnPrChanges ==
    /\ job = "pr_changes" /\ pc \in {"start", "consuming"}
    /\ pending = {}
    /\ pr_result' = SortedFileResults(file_results)
    /\ pc' = "returned"
    /\ UNCHANGED <<job, commits, pending, seen, results, matched, file_results,
                   hhVars, lmVars, cuVars, ftVars, moreVars>>

NextAggregate ==
    \/ ConsumeGithubFuture
    \/ ConsumePrFuture
    \/ ReturnResults
    \/ ConsumeCommitFiles
    \/ ReturnPrChanges

SpecAggregate == InitAggregate /\ [][NextAggregate]_vars

\* The queries a record of results carries
QueriesOf(record) == {record.query_match}

\* The records of results kept for the commit of a future
RecordsFor(future) ==
    {i \in 1..Len(results) : results[i].commit_url = commits[future[1]].html_url}

\* C8 as claimed: when every search pass has been consumed and results is
\* returned, the record kept for a commit carries every query that a pass
\* matched on that commit.
C8_EveryMatchedQueryKept ==
    (job \in {"github", "pr_search"} /\ pc = "returned") =>
        \A future \in matched :
            \E i \in RecordsFor(future) : all_queries[future[2]] \in QueriesOf(results[i])

\* No two records of results have the same commit_url
OneRecordPerUrl ==
    \A i, j \in 1..Len(results) :
        results[i].commit_url = results[j].commit_url => i = j

\* A step leaves every record of results in its place, unchanged
RecordsKept ==
    /\ Len(results') >= Len(results)
    /\ \A i \in 1..Len(results) : results'[i] = results[i]

\* C9: in every state reached while the searches consume completed passes,
\* results holds at most one record per commit_url, and no step removes or
\* replaces a record that was added.
C9_OneRecordNeverReplaced == []OneRecordPerUrl /\ [][RecordsKept]_vars

\* C9 witness: two passes matched on one commit, both have been consumed, and
\* results holds one record for that commit.
C9_Witness ==
    /\ job \in {"github", "pr_search"}
    /\ \E f1, f2 \in matched :
          /\ f1[1] = f2[1] /\ f1[2] # f2[2]
          /\ Cardinality(RecordsFor(f1)) = 1

\* The function sets of a per-file aggregate
FunctionSets(fr) ==
    [f \in DOMAIN fr |-> <<fr[f].functions_before, fr[f].functions_after>>]

\* C10: merging a per-commit result into the aggregate a second time changes
\* nothing: in _get_pr_changes the per-file functions_before and
\* functions_after sets after two merges of the result of any commit are the
\* sets after one merge, and in both searches the result list after two
\* merges of the matches of any pass is the list after one merge.
C10_MergeIdempotent ==
    /\ job = "pr_changes" =>
          \A i \in 1..Len(commits) :
              LET commit_files == process_commit(commits[i])
                  once == MergeCommitFiles(file_results, commit_files)
                  twice == MergeCommitFiles(once, commit_files)
              IN  FunctionSets(twice) = FunctionSets(once)
    /\ job \in {"github", "pr_search"} =>
          \A i \in 1..Len(commits), k \in 1..Len(all_queries) :
              LET matches == search_commit_for_query(commits[i], all_queries[k])
                  st == [seen |-> seen, results |-> results]
                  last == commits[Len(commits)]
                  once == IF job = "github" THEN MergeGithubMatches(st, matches)
                          ELSE MergePrMatches(st, matches, last)
                  twice == IF job = "github" THEN MergeGithubMatches(once, matches)
                           ELSE MergePrMatches(once, matches, last)
              IN  twice.results = once.results

\* C10 witness: _get_pr_changes has merged the results of two commits that
\* report the same units for the same file, and the file's sets hold each
\* unit once.
C10_Witness ==
    /\ job = "pr_changes" /\ pending = {} /\ Len(commits) = 2
    /\ process_commit(commits[1]) # EmptyDict
    /\ FunctionSets(process_commit(commits[1])) = FunctionSets(process_commit(commits[2]))
    /\ DOMAIN file_results = DOMAIN process_commit(commits[1])
    /\ \A f \in DOMAIN file_results :
          /\ file_results[f].functions_before
                 = Range(process_commit(commits[1])[f].functions_before)
          /\ file_results[f].functions_after
                 = Range(process_commit(commits[1])[f].functions_after)

\* The aggregate of the first n commits, merged in the order of the list
RECURSIVE MergedInListOrder(_, _)
MergedInListOrder(cs, n) ==
    IF n = 0 THEN EmptyDict
    ELSE MergeCommitFiles(MergedInListOrder(cs, n - 1), process_commit(cs[n]))

\* C22: the per-file aggregate _get_pr_changes returns is one and the same
\* for every order in which the per-commit workers complete: it is the
\* aggregate of the workers completing in the order of the commit list.
C22_AggregateOrderFree ==
    (job = "pr_changes" /\ pc = "returned") =>
        pr_result = SortedFileResults(MergedInListOrder(commits, Len(commits)))

\* The query occurs in the message of the commit or in the patch of one of
\* its files
QueryOccurs(commit, query) ==
    \/ query \in commit.message_hits
    \/ \E k \in 1..Len(commit.files) : query \in commit.files[k].patch_hits

\* C24: every search pass that has been consumed for a commit and a query
\* which occurs in the commit's message or in the patch of one of its files
\* returned a match.
C24_MessageOrPatchSuffices ==
    job \in {"github", "pr_search"} =>
        \A i \in 1..Len(commits), k \in 1..Len(all_queries) :
            (<<i, k>> \notin pending /\ QueryOccurs(commits[i], all_queries[k]))
                => /\ <<i, k>> \in matched
                   /\ search_commit_for_query(commits[i], all_queries[k]) # <<>>

\* C26: in search_pr_commits_parallel every record of results carries, as
\* files_changed, the hunks of the commit its commit_url names.
C26_HunksOfRecordedCommit ==
    job = "pr_search" =>
        \A i \in 1..Len(results) :
            results[i].files_changed
                = extract_commit_hunks(LastSegment(results[i].commit_url))

(***************************************************************************)
(* RelevanceNormalizer and the scoring fan-out, compute_relevance_gpt.     *)
(*                                                                         *)
(* A number is kept in hundredths, so that 95 is 9500 and 0.40 is 40.  A   *)
(* value decoded from JSON carries its type, as Python's does.             *)
(***************************************************************************)
JNumber(h) == [type |-> "number", hundredths |-> h]
JString(t) == [type |-> "string", text |-> t]

\* The record returned when no score could be taken from the reply
FailedRanking(url, reasoning) == [url |-> url, score |-> 0, reasoning |-> reasoning]

\* rank_single_commit, from the reply of the scoring collaborator on.  The
\* reply either raises, or is text that json.loads rejects, or decodes to the
\* dict parsed.  A score that is not a number makes `> 0` raise TypeError,
\* which the last handler catches.
rank_single_commit(commit) ==
    LET url == commit.commit_url
        reply == commit.reply
    IN  IF reply.kind = "raises"
        THEN FailedRanking(url, "Unexpected API error: " \o reply.error)
        ELSE IF reply.kind = "not_json"
        THEN FailedRanking(url, "JSON decode error from API response.")
        ELSE LET parsed == reply.parsed
             IN  IF "url" \in DOMAIN parsed /\ "score" \in DOMAIN parsed
                 THEN IF parsed.score.type # "number"
                      THEN FailedRanking(url, "Unexpected API error: "
                               \o "'>' not supported between instances of")
                      ELSE IF parsed.score.hundredths > 0
                      THEN [url |-> parsed.url,
                            score |-> parsed.score.hundredths,
                            relevant_files |->
                                IF "bug_related_files" \in DOMAIN parsed
                                THEN parsed.bug_related_files
                                ELSE "No related files provided"]
                      ELSE FailedRanking(url,
                               "Failed to parse GPT response: Missing keys.")
                 ELSE FailedRanking(url, "Failed to parse GPT response: Missing keys.")

\* A mutation of AppendRanking: a record with score 0 is left out
AppendRanking_skipping_zero(rankings, result) ==
    IF result.score = 0 THEN rankings ELSE Append(rankings, result)

\* rank_with_gpt: all_rankings.append(result)
AppendRanking(rankings, result) == Append(rankings, result)

(***************************************************************************)
(* rank_with_gpt run on a list of commits.                                 *)
(***************************************************************************)
\* What the scoring collaborator can answer for the commit with this URL
Replies(url) ==
    { [kind |-> "raises", error |-> "Connection error."],
      [kind |-> "not_json"],
      [kind |-> "json", parsed |-> EmptyDict],
      [kind |-> "json", parsed |-> [score |-> JNumber(9500)]],
      [kind |-> "json", parsed |-> [url |-> url, score |-> JNumber(9500)]],
      [kind |-> "json", parsed |-> [url |-> url, score |-> JNumber(40)]],
      [kind |-> "json", parsed |-> [url |-> url, score |-> JNumber(0)]],
      [kind |-> "json", parsed |-> [url |-> url, score |-> JString("95")]],
      [kind |-> "json",
       parsed |-> [url |-> CommitUrl(0), score |-> JNumber(9500),
                   bug_related_files |-> <<FileA>>]] }

RankCommit(i, reply) ==
    [commit_url |-> CommitUrl(i), message |-> <<"message", i>>,
     files_changed |-> <<>>, reply |-> reply]

InitRank ==
    /\ pc = "start"
    /\ IdleHunk /\ IdleMapper /\ IdleUnits /\ IdleTagger /\ IdleAggregate
    /\ IdleResolver /\ IdleStructural /\ IdleLast
    /\ \E n \in 0..MaxCommits :
          \E reply \in [1..n -> UNION {Replies(CommitUrl(i)) : i \in 1..n}] :
              /\ \A i \in 1..n : reply[i] \in Replies(CommitUrl(i))
              /\ commit_data_list = [i \in 1..n |-> RankCommit(i, reply[i])]
              /\ rank_pending = 1..n
    /\ done_order = <<>>
    /\ all_rankings = <<>>

\* rank_with_gpt: as_completed hands over one more future
ConsumeRanking ==
    /\ pc \in {"start", "ranking"}
    /\ \E future \in rank_pending :
          /\ all_rankings' =
                 AppendRanking(all_rankings, rank_single_commit(commit_data_list[future]))
          /\ done_order' = Append(done_order, future)
          /\ rank_pending' = rank_pending \ {future}
    /\ pc' = "ranking"
    /\ UNCHANGED <<commit_data_list, hhVars, lmVars, cuVars, ftVars, agVars, lastVars, brVars, scVars>>

\* rank_with_gpt: every future has been consumed, all_rankings is returned
ReturnRankings ==
    /\ pc \in {"start", "ranking"}
    /\ rank_pending = {}
    /\ pc' = "ranked"
    /\ UNCHANGED <<rkVars, hhVars, lmVars, cuVars, ftVars, agVars, lastVars, brVars, scVars>>

NextRank == ConsumeRanking \/ ReturnRankings

SpecRank == InitRank /\ [][NextRank]_vars

\* C11 as claimed: the list rank_with_gpt returns is in descending order of
\* score, and of two records with the same score the one of the commit that
\* is earlier in the input comes first, whatever the order of completion.
C11_SortedByScore ==
    pc = "ranked" =>
        \A i, j \in 1..Len(all_rankings) :
            i < j =>
                \/ all_rankings[i].score > all_rankings[j].score
                \/ /\ all_rankings[i].score = all_rankings[j].score
                   /\ done_order[i] < done_order[j]

\* C12 as claimed: every record of rank_with_gpt has its score on the 0..1
\* scale (0 to 100 hundredths).
C12_ScoreOnUnitScale ==
    \A k \in 1..Len(all_rankings) :
        0 <= all_rankings[k].score /\ all_rankings[k].score <= 100

\* The scoring call of the commit fails: the collaborator raises, the reply
\* does not decode, the decoded reply lacks a key, or its score is no number
ScoringFails(commit) ==
    \/ commit.reply.kind \in {"raises", "not_json"}
    \/ /\ commit.reply.kind = "json"
       /\ \/ ~({"url", "score"} \subseteq DOMAIN commit.reply.parsed)
          \/ commit.reply.parsed.score.type # "number"

\* C13: rank_with_gpt holds one record per consumed commit and returns one
\* per input commit; the record of a commit whose scoring call fails has the
\* commit's URL, score 0 and a non-empty reasoning, and the record of a
\* commit scored above 0 has that score, whatever happened to the others.
C13_OneRecordPerCommit ==
    /\ Len(all_rankings) = Len(done_order)
    /\ pc = "ranked" =>
          /\ Len(all_rankings) = Len(commit_data_list)
          /\ Range(done_order) = 1..Len(commit_data_list)
    /\ \A k \in 1..Len(all_rankings) :
          LET commit == commit_data_list[done_order[k]]
              record == all_rankings[k]
          IN  IF ScoringFails(commit)
              THEN /\ record.url = commit.commit_url
                   /\ record.score = 0
                   /\ "reasoning" \in DOMAIN record
                   /\ record.reasoning # ""
              ELSE commit.reply.parsed.score.hundredths > 0 =>
                       record.score = commit.reply.parsed.score.hundredths

\* C13 witness: of two commits the one consumed first failed by an exception
\* and the other was scored 95; both records have been returned.
C13_Witness ==
    /\ pc = "ranked"
    /\ Len(commit_data_list) = 2
    /\ commit_data_list[done_order[1]].reply.kind = "raises"
    /\ all_rankings[1].score = 0
    /\ all_rankings[2].score = 9500

\* C27: every record of all_rankings has the URL of the commit it was
\* computed for, so that the returned list holds every URL as many times as
\* the input commits hold it as commit_url.
C27_UrlOfOwnCommit ==
    /\ \A k \in 1..Len(all_rankings) :
          all_rankings[k].url = commit_data_list[done_order[k]].commit_url
    /\ pc = "ranked" =>
          \A i \in 1..Len(commit_data_list) :
              LET u == commit_data_list[i].commit_url
              IN  Cardinality({k \in 1..Len(all_rankings) : all_rankings[k].url = u})
                    = Cardinality({j \in 1..Len(commit_data_list) :
                                       commit_data_list[j].commit_url = u})

(***************************************************************************)
(* BlobReferenceResolver, utils.url_helpers.get_blob_url_by_function.      *)
(***************************************************************************)
\* lit in s
Contains(s, lit) == \E p \in 1..(Len(s) + 1) : HasLit(s, p, lit)

\* s.split(sep)[0]
SplitFirst(s, sep) ==
    IF Contains(s, sep)
    THEN Slice(s, 1, Min({p \in 1..(Len(s) + 1) : HasLit(s, p, sep)}))
    ELSE s

\* s.replace(old, "")
RECURSIVE Removed(_, _)
Removed(s, old) ==
    IF s = <<>> THEN <<>>
    ELSE IF HasLit(s, 1, old) THEN Removed(SubSeq(s, Len(old) + 1, Len(s)), old)
    ELSE <<s[1]>> \o Removed(Tail(s), old)

\* s.lower()
lower(s) ==
    [i \in 1..Len(s) |->
        IF s[i] \in Upper THEN AsciiLower[IndexIn(AsciiUpper, s[i])] ELSE s[i]]

DotSol == <<".", "s", "o", "l">>

\* get_blob_url_by_function: prefix
UnitPrefix(name) ==
    IF Contains(name, <<":", ":">>) THEN SplitFirst(name, <<":", ":">>)
    ELSE IF Contains(name, <<" ", "i", "s", " ">>)
    THEN SplitFirst(name, <<" ", "i", "s", " ">>)
    ELSE name

\* get_blob_url_by_function: the condition of the loop body
FileMatches(prefix, file) ==
    LET file_base == Removed(file, DotSol)
    IN  \/ lower(prefix) = lower(file_base)
        \/ lower(prefix) = lower(file)
        \/ Contains(lower(prefix), lower(file_base))
        \/ Contains(lower(file_base), lower(prefix))

\* get_blob_url_by_function; None is NoText
get_blob_url_by_function(blobs, name, files) ==
    LET prefix == UnitPrefix(name)
        hits == {i \in 1..Len(files) :
                    FileMatches(prefix, files[i]) /\ i <= Len(blobs)}
    IN  IF hits # {} THEN blobs[Min(hits)]
        ELSE IF Len(blobs) = 1 THEN blobs[1]
        ELSE NoText

(***************************************************************************)
(* The resolver run on one unit name.                                      *)
(***************************************************************************)
FileNames ==
    { <<"V", "a", "u", "l", "t", ".", "s", "o", "l">>,
      <<"V", "a", "u", "l", "t", "M", "a", "n", "a", "g", "e", "r", ".", "s", "o", "l">>,
      <<"T", "o", "k", "e", "n", ".", "s", "o", "l">>,
      <<"V", "a", ".", "s", "o", "l">> }

UnitNames ==
    { <<"V", "a", "u", "l", "t", ":", ":", "d", "e", "p", "o", "s", "i", "t">>,
      <<"v", "a", "u", "l", "t">>,
      <<"V", "a", "u", "l", "t", " ", "i", "s", " ", "O", "w", "n", "a", "b", "l", "e">>,
      <<"T", "o", "k", "e", "n", ".", "s", "o", "l", ":", ":", "m", "i", "n", "t">>,
      <<"O", "r", "a", "c", "l", "e", ":", ":", "f">> }

\* The reference of the file at position i
BlobAt(i) == <<"blob", i>>

InitResolver ==
    /\ pc = "start"
    /\ IdleHunk /\ IdleMapper /\ IdleUnits /\ IdleTagger /\ IdleAggregate
    /\ IdleRank /\ IdleStructural /\ IdleLast
    /\ files_list \in SeqsUpTo(FileNames, MaxFiles)
    /\ function_name \in UnitNames
    /\ \E k \in 0..MaxFiles : blob_list = [i \in 1..k |-> BlobAt(i)]
    /\ blob_url = <<>>

GetBlobUrlByFunction ==
    /\ pc = "start"
    /\ blob_url' = get_blob_url_by_function(blob_list, function_name, files_list)
    /\ pc' = "resolved"
    /\ UNCHANGED <<blob_list, function_name, files_list,
                   hhVars, lmVars, cuVars, ftVars, agVars, lastVars, rkVars, scVars>>

NextResolver == GetBlobUrlByFunction

SpecResolver == InitResolver /\ [][NextResolver]_vars

\* Rule 1: the prefix equals the base name of the file, case aside
ExactMatch(prefix, file) == lower(prefix) = lower(Removed(file, DotSol))

\* Rule 2: one of prefix and base name is inside the other, case aside
SubstringMatch(prefix, file) ==
    \/ Contains(lower(prefix), lower(Removed(file, DotSol)))
    \/ Contains(lower(Removed(file, DotSol)), lower(prefix))

\* C14 as claimed: the rules are applied in priority order over the whole
\* file list: when some file with a reference matches the prefix exactly, the
\* reference of such a file is returned, also when an earlier file matches
\* by substring only; substring matches are used only when there is no exact
\* match, and the single-entry fallback only when there is neither.
C14_ExactMatchFirst ==
    pc = "resolved" =>
        LET prefix == UnitPrefix(function_name)
            Held == 1..Min({Len(files_list), Len(blob_list)})
            exact == {i \in Held : ExactMatch(prefix, files_list[i])}
            substring == {i \in Held : SubstringMatch(prefix, files_list[i])}
        IN  IF exact # {} THEN blob_url \in {blob_list[i] : i \in exact}
            ELSE IF substring # {} THEN blob_url \in {blob_list[i] : i \in substring}
            ELSE blob_url = IF Len(blob_list) = 1 THEN blob_list[1] ELSE NoText

(***************************************************************************)
(* The structural pass: get_github_changes_with_blobs for a commit URL and *)
(* AuditChangesProcessor.get_finding_commit_data.                          *)
(*                                                                         *)
(* A call that raises is the record [raised |-> TRUE, error |-> text]; one *)
(* that returns is [raised |-> FALSE, value |-> the dict].                 *)
(***************************************************************************)
Raised(text) == [raised |-> TRUE, error |-> text]
Returned(value) == [raised |-> FALSE, value |-> value]

\* _get_commit_changes, changes after the first n files of the commit.  The
\* entry of a file is the one process_commit of _get_pr_changes makes.
RECURSIVE CommitChangesOf(_, _)
CommitChangesOf(commit_data, n) ==
    IF n = 0 THEN EmptyDict
    ELSE LET file == commit_data.files[n]
         IN  IF ~EndsWith(file.filename, DotSol)
             THEN CommitChangesOf(commit_data, n - 1)
             ELSE (file.filename :> FileEntry(commit_data, file))
                      @@ CommitChangesOf(commit_data, n - 1)

\* _get_commit_changes, for what the host answers for the commit
_get_commit_changes(commit_data) ==
    IF commit_data.status_code # 200
    THEN Raised(<<"G", "i", "t", "H", "u", "b", " ", "A", "P", "I", " ",
                  "e", "r", "r", "o", "r", ":", " ", "4", "0", "4">>)
    ELSE Returned(CommitChangesOf(commit_data, Len(commit_data.files)))

\* urlparse(url).path.strip("/").split("/") of a URL given by its segments
PathParts(url) == SubSeq(url, 4, Len(url))

\* get_github_changes_with_blobs for the URL of a commit; host is what the
\* host holds for the URL
get_github_changes_with_blobs(url, token, host) ==
    IF token = NoText THEN Returned(EmptyDict)
    ELSE LET parts == PathParts(url)
         IN  IF Len(parts) < 4
             THEN Raised(<<"U", "R", "L", " ", "d", "o", "e", "s", " ", "n", "o", "t">>)
             ELSE IF parts[3] = "commit" THEN _get_commit_changes(host)
             ELSE Raised(<<"U", "R", "L", " ", "m", "u", "s", "t", " ", "b", "e">>)

ErrorKey == <<"e", "r", "r", "o", "r">>

\* AuditChangesProcessor.process_commit_changes
process_commit_changes(commit_url, token, host) ==
    IF commit_url = NoText
    THEN ErrorKey :> <<"N", "o", " ", "U", "R", "L", " ", "i", "n", " ",
                      "c", "o", "m", "m", "i", "t">>
    ELSE LET changes == get_github_changes_with_blobs(commit_url, token, host)
         IN  IF changes.raised THEN ErrorKey :> changes.error ELSE changes.value

\* sum(len(v) for v in d.values()) over the keys ks; len of a dict is the
\* number of its keys and len of a string the number of its characters
RECURSIVE SumOfLens(_, _)
SumOfLens(d, ks) ==
    IF ks = {} THEN 0
    ELSE LET k == CHOOSE x \in ks : TRUE
         IN  Cardinality(DOMAIN d[k]) + SumOfLens(d, ks \ {k})

\* A mutation of _process_single_commit_with_changes: no look at the changes
_process_single_commit_with_changes_unchecked(commit, token) ==
    [url |-> commit.url, message |-> commit.message,
     changes |-> process_commit_changes(commit.url, token, commit.host)]

\* AuditChangesProcessor._process_single_commit_with_changes; None is
\* EmptyDict, which is falsy as None is
_process_single_commit_with_changes(commit, token) ==
    LET commit_changes == process_commit_changes(commit.url, token, commit.host)
    IN  IF commit_changes # EmptyDict
           /\ SumOfLens(commit_changes, DOMAIN commit_changes) > 0
        THEN [url |-> commit.url, message |-> commit.message,
              changes |-> commit_changes]
        ELSE EmptyDict

(***************************************************************************)
(* get_finding_commit_data run on the commits found for a finding.         *)
(***************************************************************************)
ReadmeFile == <<"R", "E", "A", "D", "M", "E", ".", "m", "d">>
ScriptFile == <<"A", ".", "s", "o", "l", ".", "t", "s">>

\* What the host can hold for a commit
HostContents ==
    LET Changed(name, status) ==
            [filename |-> name, status |-> status, previous_filename |-> NoText,
             units_before |-> <<UnitF>>, units_after |-> <<UnitF>>]
    IN  { [status_code |-> 200, files |-> <<>>],
          [status_code |-> 200, files |-> <<Changed(ReadmeFile, "modified")>>],
          [status_code |-> 200,
           files |-> <<Changed(ReadmeFile, "added"), Changed(ScriptFile, "modified")>>],
          [status_code |-> 200, files |-> <<Changed(FileA, "modified")>>],
          [status_code |-> 200,
           files |-> <<Changed(ReadmeFile, "modified"), Changed(FileA, "added")>>],
          [status_code |-> 404, files |-> <<>>] }

\* The commits a finding can come with: a commit URL with what the host
\* holds for it, no URL, or a URL that is no commit's
FoundCommits(i) ==
    {[url |-> CommitUrl(i), message |-> <<"message", i>>,
      host |-> [sha |-> i, parents |-> <<i - 1>>,
                status_code |-> content.status_code, files |-> content.files]] :
         content \in HostContents}
    \cup {[url |-> NoText, message |-> <<"message", i>>, host |-> EmptyDict],
          [url |-> <<"https:", "", "github.com", "owner", "name", "tree", i>>,
           message |-> <<"message", i>>, host |-> EmptyDict]}

InitStructural ==
    /\ pc = "start"
    /\ IdleHunk /\ IdleMapper /\ IdleUnits /\ IdleTagger /\ IdleAggregate
    /\ IdleRank /\ IdleResolver /\ IdleLast
    /\ github_token \in {NoText, <<"g", "h", "p", "_", "1">>}
    /\ \E n \in 0..MaxCommits :
          \E found \in [1..n -> UNION {FoundCommits(i) : i \in 1..n}] :
              /\ \A i \in 1..n : found[i] \in FoundCommits(i)
              /\ cleaned_results = found
              /\ struct_pending = 1..n
    /\ commits_with_changes = <<>>

\* get_finding_commit_data: as_completed hands over one more future
ConsumeCommitChanges ==
    /\ pc \in {"start", "collecting"}
    /\ \E future \in struct_pending :
          LET result == _process_single_commit_with_changes(
                            cleaned_results[future], github_token)
          IN  /\ commits_with_changes' =
                     IF result # EmptyDict THEN Append(commits_with_changes, result)
                     ELSE commits_with_changes
              /\ struct_pending' = struct_pending \ {future}
    /\ pc' = "collecting"
    /\ UNCHANGED <<github_token, cleaned_results,
                   hhVars, lmVars, cuVars, ftVars, agVars, lastVars, rkVars, brVars>>

\* get_finding_commit_data: return commits_with_changes
ReturnCommitsWithChanges ==
    /\ pc \in {"start", "collecting"}
    /\ struct_pending = {}
    /\ pc' = "collected"
    /\ UNCHANGED <<scVars, hhVars, lmVars, cuVars, ftVars, agVars, lastVars, rkVars, brVars>>

NextStructural == ConsumeCommitChanges \/ ReturnCommitsWithChanges

SpecStructural == InitStructural /\ [][NextStructural]_vars

\* No changed file of the commit has a name ending in .sol
NoSolFile(commit) ==
    \A k \in 1..Len(commit.host.files) :
        LET name == commit.host.files[k].filename
        IN  Len(name) < 4 \/ SubSeq(name, Len(name) - 3, Len(name)) # <<".", "s", "o", "l">>

\* The commit has a commit URL and the host answers for it
Answered(commit) ==
    /\ commit.url # NoText /\ commit.url[6] = "commit"
    /\ commit.host.status_code = 200

Get(d, key, default) == IF key \in DOMAIN d THEN d[key] ELSE default

\* A slot of the pre-allocated list that still holds Python's None
Unset == [none |-> TRUE]

\* is_solidity_file
is_solidity_file(filename) ==
    /\ EndsWith(filename, DotSol)
    /\ ~Contains(filename, <<".", "t", ".">>)
    /\ ~Contains(lower(filename), <<"i", "n", "t", "e", "r", "f", "a", "c", "e">>)
    /\ ~Contains(lower(filename), <<"m", "o", "c", "k">>)
    /\ ~Contains(lower(filename), <<"t", "e", "s", "t">>)

\* parse_commit_url: github.com/<owner>/<repo>/commit/<sha> found in the URL,
\* which is given by its segments
parse_commit_url(commit_url) ==
    IF Len(commit_url) >= 7 /\ commit_url[3] = "github.com" /\ commit_url[6] = "commit"
    THEN Returned([owner |-> commit_url[4], repo |-> commit_url[5], sha |-> commit_url[7]])
    ELSE Raised("Invalid GitHub commit URL")

\* get_blob_url
get_blob_url(owner, repo, sha, filepath, ref) ==
    <<"https:", "", "github.com", owner, repo, "blob", ref, filepath>>

\* os.path.basename
Basename(path) ==
    LET slashes == {i \in 1..Len(path) : path[i] = "/"}
    IN  IF slashes = {} THEN path
        ELSE SubSeq(path, (CHOOSE i \in slashes : \A k \in slashes : k <= i) + 1, Len(path))

\* The list relevant_files is turned into (lines 123 to 134)
RelevantFiles(commit_dict) ==
    LET relevant_files == Get(commit_dict, "relevant_files", [type |-> "list", items |-> <<>>])
    IN  IF relevant_files.type = "str"
        THEN IF lower(relevant_files.text) \in {NoText, <<"n", "o", "n", "e">>, <<"n", "/", "a">>}
             THEN <<>>
             ELSE <<relevant_files.text>>
        ELSE IF relevant_files.type = "list" THEN relevant_files.items
        ELSE <<>>

\* The any(...) that tests a file name against relevant_files
FilenameMatches(filename, relevant_files) ==
    \E k \in 1..Len(relevant_files) :
        LET rf == relevant_files[k]
        IN  \/ filename = rf
            \/ EndsWith(filename, <<"/">> \o rf)
            \/ Basename(filename) = rf

\* The loop over file.patch.split("\n"), one line
HunkLineStep(st, line) ==
    IF StartsWith(line, <<"@", "@">>)
    THEN LET line_info == parse_hunk_header(line)
         IN  [hunks |-> IF st.current_hunk # EmptyDict
                        THEN Append(st.hunks, st.current_hunk) ELSE st.hunks,
              current_hunk |->
                  [header |-> line,
                   old_start_line |-> Get(line_info, "old_start", None),
                   old_line_count |-> Get(line_info, "old_count", None),
                   new_start_line |-> Get(line_info, "new_start", None),
                   new_line_count |-> Get(line_info, "new_count", None),
                   context |-> Get(line_info, "context", None),
                   lines |-> <<>>]]
    ELSE IF st.current_hunk # EmptyDict
         THEN [st EXCEPT !.current_hunk.lines = Append(@, line)]
         ELSE st

RECURSIVE WalkHunks(_, _)
WalkHunks(lines, n) ==
    IF n = 0 THEN [hunks |-> <<>>, current_hunk |-> EmptyDict]
    ELSE TheOne({HunkLineStep(st, lines[n]) : st \in {WalkHunks(lines, n - 1)}})

\* file_info["hunks"] for a patch given by its lines (no lines: no patch)
FileHunks(lines) ==
    TheOne({IF st.current_hunk # EmptyDict THEN Append(st.hunks, st.current_hunk)
            ELSE st.hunks : st \in {WalkHunks(lines, Len(lines))}})

\* file_info of one file of the commit
FileInfo(url_parts, parent_sha, file) ==
    [filename |-> file.filename,
     status |-> file.status,
     blob_url_before |->
         IF parent_sha # None /\ file.status # "added"
         THEN get_blob_url(url_parts.owner, url_parts.repo, url_parts.sha,
                           file.filename, parent_sha)
         ELSE NoText,
     blob_url_after |->
         IF file.status # "removed"
         THEN get_blob_url(url_parts.owner, url_parts.repo, url_parts.sha,
                           file.filename, url_parts.sha)
         ELSE NoText,
     hunks |-> FileHunks(file.patch)]

\* detailed_info["files"] after the first n files of the commit
RECURSIVE DetailedFiles(_, _, _, _, _)
DetailedFiles(url_parts, parent_sha, files, relevant_files, n) ==
    IF n = 0 THEN <<>>
    ELSE LET file == files[n]
             before == DetailedFiles(url_parts, parent_sha, files, relevant_files, n - 1)
         IN  IF ~is_solidity_file(file.filename) THEN before
             ELSE IF relevant_files # <<>> /\ ~FilenameMatches(file.filename, relevant_files)
             THEN before
             ELSE Append(before, FileInfo(url_parts, parent_sha, file))

\* The body of the try block: the detailed info, or the exception raised
DetailedInfo(commit_obj, token) ==
    LET commit_dict == commit_obj.dict
        commit_url == Get(commit_dict, "url", NoText)
        url_parts == parse_commit_url(commit_url)
        commit == commit_obj.host
        parent_sha == IF commit.parents # <<>> THEN commit.parents[1] ELSE None
    IN  IF token = NoText
        THEN Raised("GITHUB_API_KEY environment variable not set")
        ELSE IF ~commit_obj.is_dict
        THEN Raised("object has no attribute 'get'")
        ELSE IF commit_url = NoText
        THEN Raised("Missing commit URL in commit object")
        ELSE IF url_parts.raised THEN url_parts
        ELSE IF commit.status_code # 200 THEN Raised("404 Not Found")
        ELSE Returned([commit_url |-> commit_url,
                       sha |-> url_parts.value.sha,
                       parent_sha |-> parent_sha,
                       message |-> commit.message,
                       score |-> Get(commit_dict, "score", 0),
                       files |-> DetailedFiles(url_parts.value, parent_sha, commit.files,
                                               RelevantFiles(commit_dict),
                                               Len(commit.files))])

\* extract_detailed_commit_info: the try block and its handler, which reads
\* commit_obj again and so raises for an object that is no dict
extract_detailed_commit_info(commit_obj, token) ==
    LET tried == TheOne({DetailedInfo(c, token) : c \in {commit_obj}})
    IN  IF ~tried.raised THEN tried
        ELSE IF ~commit_obj.is_dict THEN Raised("object has no attribute 'get'")
        ELSE Returned([commit_url |-> Get(commit_obj.dict, "url", <<"unknown">>),
                       error |-> tried.error,
                       traceback |-> tried.error,
                       original_data |-> commit_obj])

\* A mutation of StoreDetail: the result is put in the first slot still unset
StoreDetail_in_completion_order(details, index, commit_obj, outcome) ==
    LET free == {i \in 1..Len(details) : details[i] = Unset}
    IN  [details EXCEPT ![Min(free)] =
            IF outcome.raised
            THEN [error |-> "Unexpected error: " \o outcome.error,
                  original_data |-> commit_obj]
            ELSE outcome.value]

\* process_commit_list: what one completed future does to detailed_commits
StoreDetail(details, index, commit_obj, outcome) ==
    [details EXCEPT ![index] =
        IF outcome.raised
        THEN [error |-> "Unexpected error: " \o outcome.error,
              original_data |-> commit_obj]
        ELSE outcome.value]

(***************************************************************************)
(* process_commit_list run on a list of commit objects.                    *)
(***************************************************************************)
NestedFile == <<"s", "r", "c", "/", "A", ".", "s", "o", "l">>
MockFile == <<"M", "o", "c", "k", "A", ".", "s", "o", "l">>

\* What the host can hold for the commit of a commit object
DetailContents ==
    LET Changed(name, status, lines) ==
            [filename |-> name, status |-> status, patch |-> lines]
    IN  { [status_code |-> 200, parents |-> TRUE,
           files |-> <<Changed(FileA, "modified", Scenario2Patch)>>],
          [status_code |-> 200, parents |-> TRUE,
           files |-> <<Changed(NestedFile, "added", <<>>),
                       Changed(MockFile, "modified", Scenario2Patch)>>],
          [status_code |-> 200, parents |-> FALSE,
           files |-> <<Changed(FileB, "removed", <<Scenario2Patch[1]>>)>>],
          [status_code |-> 404, parents |-> TRUE, files |-> <<>>] }

\* The dicts a commit object can be: with or without url, score and
\* relevant_files
DetailDicts(i) ==
    LET url == "url" :> CommitUrl(i)
        score == "score" :> 9500
    IN  { url @@ score,
          url,
          url @@ score @@ ("relevant_files" :> [type |-> "list", items |-> <<FileA>>]),
          url @@ ("relevant_files" :> [type |-> "str", text |-> <<"N", "o", "n", "e">>]),
          score,
          ("url" :> <<"https:", "", "github.com", "owner", "name", "tree", i>>) @@ score }

DetailObjects(i) ==
    {[is_dict |-> TRUE, dict |-> d,
      host |-> [sha |-> i, parents |-> IF c.parents THEN <<i - 1>> ELSE <<>>,
                status_code |-> c.status_code, message |-> <<"message", i>>,
                files |-> c.files]] :
         d \in DetailDicts(i), c \in DetailContents}
    \cup {[is_dict |-> FALSE, dict |-> EmptyDict,
           host |-> [sha |-> i, parents |-> <<>>, status_code |-> 404,
                     message |-> <<"message", i>>, files |-> <<>>]]}

InitDetails ==
    /\ pc = "start"
    /\ IdleEarlier /\ IdleHistory /\ IdleGui /\ IdleContext
    /\ api_key \in {NoText, <<"g", "h", "p", "_", "1">>}
    /\ \E n \in 0..MaxCommits :
          \E objs \in [1..n -> UNION {DetailObjects(i) : i \in 1..n}] :
              /\ \A i \in 1..n : objs[i] \in DetailObjects(i)
              /\ commit_objects = objs
              /\ detail_pending = 1..n
              /\ detailed_commits = [i \in 1..n |-> Unset]

\* process_commit_list: as_completed hands over one more future
ConsumeDetail ==
    /\ pc \in {"start", "detailing"}
    /\ \E index \in detail_pending :
          /\ detailed_commits' =
                 StoreDetail(detailed_commits, index, commit_objects[index],
                     extract_detailed_commit_info(commit_objects[index], api_key))
          /\ detail_pending' = detail_pending \ {index}
    /\ pc' = "detailing"
    /\ UNCHANGED <<commit_objects, api_key, earlierVars, hrVars, uiVars, ocVars>>

\* process_commit_list: return detailed_commits
ReturnDetailedCommits ==
    /\ pc \in {"start", "detailing"}
    /\ detail_pending = {}
    /\ pc' = "detailed"
    /\ UNCHANGED <<dcVars, earlierVars, hrVars, uiVars, ocVars>>

NextDetails == ConsumeDetail \/ ReturnDetailedCommits

SpecDetails == InitDetails /\ [][NextDetails]_vars

\* The entry process_commit_list keeps for a commit object
DetailEntryFor(commit_obj) ==
    LET outcome == extract_detailed_commit_info(commit_obj, api_key)
    IN  IF outcome.raised
        THEN [error |-> "Unexpected error: " \o outcome.error,
              original_data |-> commit_obj]
        ELSE outcome.value

\* C23: the list has the length of the input throughout; the entry of every
\* consumed future is the result or the error record of the commit object at
\* the same index, whatever the other futures gave and in whatever order
\* they completed, and the list returned has no unset entry.
C23_EntryPerIndex ==
    /\ Len(detailed_commits) = Len(commit_objects)
    /\ \A i \in 1..Len(commit_objects) :
          IF i \in detail_pending THEN detailed_commits[i] = Unset
          ELSE /\ detailed_commits[i] # Unset
               /\ detailed_commits[i] = DetailEntryFor(commit_objects[i])
    /\ pc = "detailed" => \A i \in 1..Len(detailed_commits) : detailed_commits[i] # Unset

\* C23 witness: of two commit objects the first failed and the second did
\* not; the list returned has the error record first and the detailed info
\* of the second commit, with a file, second.
C23_Witness ==
    /\ pc = "detailed"
    /\ Len(commit_objects) = 2
    /\ "error" \in DOMAIN detailed_commits[1]
    /\ "files" \in DOMAIN detailed_commits[2]
    /\ detailed_commits[2].files # <<>>
    /\ detailed_commits[2].commit_url = CommitUrl(2)

(***************************************************************************)
(* get_all_github_commits.get_commit_history_range on a branch whose       *)
(* commits are 1..head_sha, oldest first.                                  *)
(***************************************************************************)
MaxHistory == 4

\* References: the SHA of commit n, and the name of the branch
Sha(n) == [kind |-> "sha", id |-> n]
BranchName == [kind |-> "branch", id |-> 0]

\* The commit a reference resolves to on the host
Resolve(ref, head) == IF ref.kind = "branch" THEN head ELSE ref.id

\* What the host answers for /commits/{ref}
HostCommit(ref, head) == [sha |-> Sha(Resolve(ref, head))]

\* What the host answers for /compare/{base}...{target}: the commits of
\* target that are not commits of base, oldest first, target's own included
HostCompare(base, target, head) ==
    LET from == Resolve(base, head)
        to == Resolve(target, head)
    IN  [k \in 1..(IF to > from THEN to - from ELSE 0) |-> [sha |-> Sha(from + k)]]

\* The loop that adds the intermediate commits
RECURSIVE AddIntermediate(_, _, _, _)
AddIntermediate(result, compared, base, target) ==
    IF compared = <<>> THEN result
    ELSE LET c == Head(compared)
         IN  AddIntermediate(IF c.sha \notin {base, target} THEN Append(result, c)
                             ELSE result,
                             Tail(compared), base, target)

get_commit_history_range(base, target, head, status) ==
    IF status # 200 THEN <<>>
    ELSE LET compared == HostCompare(base, target, head)
             base_commit == HostCommit(base, head)
             target_commit == HostCommit(target, head)
         IN  Append(AddIntermediate(<<base_commit>>, compared, base, target),
                    target_commit)

InitHistory ==
    /\ pc = "start"
    /\ IdleEarlier /\ IdleDetails /\ IdleGui /\ IdleContext
    /\ head_sha \in 1..MaxHistory
    /\ \E b \in 1..head_sha :
          /\ base_sha = Sha(b)
          /\ target_sha \in {Sha(t) : t \in b..head_sha} \cup {BranchName}
    /\ compare_status \in {200, 404}
    /\ range_result = <<>>

GetCommitHistoryRange ==
    /\ pc = "start"
    /\ range_result' =
           get_commit_history_range(base_sha, target_sha, head_sha, compare_status)
    /\ pc' = "ranged"
    /\ UNCHANGED <<head_sha, base_sha, target_sha, compare_status, earlierVars, dcVars, uiVars, ocVars>>

NextHistory == GetCommitHistoryRange

SpecHistory == InitHistory /\ [][NextHistory]_vars

\* C25: when the host answers, the list returned begins with the base
\* commit, ends with the target commit, holds the commits between them in
\* their order in between, and holds no commit twice; also for a target
\* given as a branch name and for base and target the same commit.
C25_RangeWithoutDuplicates ==
    (pc = "ranged" /\ compare_status = 200) =>
        LET from == Resolve(base_sha, head_sha)
            to == Resolve(target_sha, head_sha)
            n == Len(range_result)
        IN  /\ n >= 1
            /\ range_result[1].sha = Sha(from)
            /\ range_result[n].sha = Sha(to)
            /\ \A i, j \in 1..n : range_result[i].sha = range_result[j].sha => i = j
            /\ {range_result[i].sha.id : i \in 1..n} = from..to
            /\ \A i, j \in 1..n : i < j => range_result[i].sha.id < range_result[j].sha.id

(***************************************************************************)
(* The results panel: core.commit_operations.run_get_commit_data with its  *)
(* worker thread, and gui.results_panel.ResultsPanel._on_result_select.    *)
(* Row idx of the list (from 0 in the source) is position idx + 1 here.    *)
(***************************************************************************)
MaxRequests == 2

\* What a worker can hand to update_ui: the list get_finding_commit_data
\* returned, or the one-record list made when it raised
WorkerResults ==
    LET Found(k) == [url |-> CommitUrl(k), message |-> <<"message", k>>]
    IN  UNION {[1..n -> {Found(1), Found(2)}] : n \in 0..MaxCommits}
        \cup {<<[error |-> "Error in worker thread"]>>}

InitGui ==
    /\ pc = "start"
    /\ IdleEarlier /\ IdleDetails /\ IdleHistory /\ IdleContext
    /\ requests_made = 0
    /\ ui_workers = {}
    /\ results_list = 0
    /\ ranked_commits = <<>>
    /\ ranked_commits_cache = EmptyDict

\* run_get_commit_data up to the start of the worker thread
RunGetCommitData ==
    /\ requests_made < MaxRequests
    /\ requests_made' = requests_made + 1
    /\ results_list' = 0
    /\ ranked_commits_cache' = EmptyDict
    /\ ui_workers' = ui_workers \cup {requests_made + 1}
    /\ pc' = "requested"
    /\ UNCHANGED <<ranked_commits, earlierVars, dcVars, hrVars, ocVars>>

\* update_ui, which a worker schedules on the main thread when it is done
UpdateUi ==
    /\ \E request \in ui_workers, result_commits \in WorkerResults :
          /\ ranked_commits' = result_commits
          /\ results_list' = Len(result_commits)
          /\ ui_workers' = ui_workers \ {request}
    /\ pc' = "updated"
    /\ UNCHANGED <<requests_made, ranked_commits_cache,
                   earlierVars, dcVars, hrVars, ocVars>>

\* _on_result_select, on state['ranked_commits'] and the cache.  The commits
\* are dicts with string keys holding strings, lists and dicts of the same,
\* for which json.loads(json.dumps(commit)) is an equal value that shares
\* nothing with commit; values here are never shared.
OnSelect(st, idx) ==
    IF idx \in DOMAIN st.ranked_commits_cache
    THEN [st EXCEPT !.ranked_commits[idx] = st.ranked_commits_cache[idx]]
    ELSE [st EXCEPT !.ranked_commits_cache = (idx :> st.ranked_commits[idx]) @@ @]

\* _on_result_select for a row of the list
OnResultSelect ==
    /\ \E idx \in 1..results_list :
          LET st == OnSelect([ranked_commits |-> ranked_commits,
                              ranked_commits_cache |-> ranked_commits_cache], idx)
          IN  /\ ranked_commits' = st.ranked_commits
              /\ ranked_commits_cache' = st.ranked_commits_cache
    /\ pc' = "selected"
    /\ UNCHANGED <<requests_made, ui_workers, results_list,
                   earlierVars, dcVars, hrVars, ocVars>>

NextGui == RunGetCommitData \/ UpdateUi \/ OnResultSelect

SpecGui == InitGui /\ [][NextGui]_vars

\* C29: in every state, every entry of ranked_commits_cache for a row is a
\* copy of the commit ranked_commits holds at that row, so that a selection
\* puts no commit of an earlier result set into the current one.
C29_CacheOfCurrentResults ==
    \A idx \in DOMAIN ranked_commits_cache :
        /\ idx <= Len(ranked_commits)
        /\ ranked_commits_cache[idx] = ranked_commits[idx]

(***************************************************************************)
(* The context of a finding: core.commit_operations.fix_finding and        *)
(* core.object_operations.add_function_to_context, on obj["context"].      *)
(* A source or fix is None, one reference, or a list of references.        *)
(***************************************************************************)
NoneValue == [type |-> "none"]
StrValue(text) == [type |-> "str", text |-> text]
ListValue(items) == [type |-> "list", items |-> items]

\* The truth value Python gives a source or fix
Truthy(v) ==
    \/ v.type = "str" /\ v.text # NoText
    \/ v.type = "list" /\ v.items # <<>>

\* items with name appended unless it is in the list
AppendNew(items, name) ==
    IF \E k \in 1..Len(items) : items[k] = name THEN items ELSE Append(items, name)

RECURSIVE AppendAllNew(_, _)
AppendAllNew(items, names) ==
    IF names = <<>> THEN items
    ELSE AppendAllNew(AppendNew(items, Head(names)), Tail(names))

\* fix_finding, the loop over the files of the commit: the references and
\* names collected from the first n files.  A hunk carries the names the
\* three function patterns find in its context and lines, in their order.
RECURSIVE CollectFromFiles(_, _)
CollectFromFiles(files, n) ==
    IF n = 0 THEN [before_blobs |-> <<>>, after_blobs |-> <<>>, functions |-> <<>>]
    ELSE LET acc == CollectFromFiles(files, n - 1)
             file_data == files[n]
             found == [k \in 1..Len(file_data.hunks) |-> file_data.hunks[k].found]
             RECURSIVE Flat(_)
             Flat(ss) == IF ss = <<>> THEN <<>> ELSE Head(ss) \o Flat(Tail(ss))
         IN  [before_blobs |->
                  IF file_data.blob_url_before # NoText
                  THEN Append(acc.before_blobs, file_data.blob_url_before)
                  ELSE acc.before_blobs,
              after_blobs |->
                  IF file_data.blob_url_after # NoText
                  THEN Append(acc.after_blobs, file_data.blob_url_after)
                  ELSE acc.after_blobs,
              functions |-> AppendAllNew(acc.functions, Flat(found))]

\* fix_finding on the context ctx of the object and the selected commit: a
\* file that is a str has no get, and a hunk whose context is None cannot be
\* joined with its lines; both raise before the object is touched
fix_finding(ctx, commit) ==
    LET files == Get(commit, "files", <<>>)
        collected == CollectFromFiles(files, Len(files))
        context_entry ==
            (IF collected.before_blobs # <<>>
             THEN "source" :> ListValue(collected.before_blobs) ELSE EmptyDict)
            @@ (IF collected.after_blobs # <<>>
                THEN "fix" :> ListValue(collected.after_blobs) ELSE EmptyDict)
            @@ (IF collected.functions # <<>>
                THEN ("functions_before" :> collected.functions)
                     @@ ("functions_after" :> collected.functions)
                ELSE EmptyDict)
    IN  IF "error" \in DOMAIN commit THEN [outcome |-> "refused", context |-> ctx]
        ELSE IF \E k \in 1..Len(files) :
                   \/ ~files[k].is_dict
                   \/ \E h \in 1..Len(files[k].hunks) : files[k].hunks[h].context_is_none
        THEN [outcome |-> "raised", context |-> ctx]
        ELSE IF context_entry = EmptyDict THEN [outcome |-> "refused", context |-> ctx]
        ELSE [outcome |-> "done", context |-> context_entry]

ContextKeys == {"source", "fix", "functions_before", "functions_after"}

\* add_function_to_context: the index of the matching file, 0 for -1
FileIndex(files, contract_name) ==
    LET hits == {i \in 1..Len(files) :
                    LET base == Removed(files[i].text, DotSol)
                    IN  Contains(base, contract_name) \/ Contains(contract_name, base)}
    IN  IF hits = {} THEN 0 ELSE Min(hits)

\* A reference get_blob_url_by_function returns, or None
Resolved(blob) == IF blob = NoText THEN NoneValue ELSE StrValue(blob)

\* add_function_to_context on the context ctx of the object, the commit of
\* the result row, the selected function and its list.  A file that is a
\* dict has no replace, which raises in the loop that looks for the file.
add_function_to_context(ctx, commit, selected_function, function_type) ==
    LET files == Get(commit, "files", <<>>)
        names == [i \in 1..Len(files) |-> files[i].text]
        contract_name == UnitPrefix(selected_function)
        merged == IF ContextKeys \subseteq DOMAIN ctx THEN ctx
                  ELSE [k \in ContextKeys |->
                           IF k \in {"source", "fix"} THEN NoneValue ELSE <<>>]
        ctx_source == IF Truthy(merged["source"]) THEN merged["source"]
                  ELSE Resolved(get_blob_url_by_function(
                           Get(commit, "before_blob", <<>>), selected_function, names))
        ctx_fix == IF Truthy(merged["fix"]) THEN merged["fix"]
               ELSE Resolved(get_blob_url_by_function(
                        Get(commit, "after_blob", <<>>), selected_function, names))
    IN  IF "error" \in DOMAIN commit THEN [outcome |-> "refused", context |-> ctx]
        ELSE IF \E k \in 1..Len(files) : files[k].is_dict
        THEN [outcome |-> "raised", context |-> ctx]
        ELSE IF FileIndex(files, contract_name) = 0
        THEN [outcome |-> "refused", context |-> ctx]
        ELSE [outcome |-> "done",
              context |->
                  [k \in ContextKeys |->
                      IF k = "source" THEN ctx_source
                      ELSE IF k = "fix" THEN ctx_fix
                      ELSE IF k = "functions_" \o function_type
                      THEN AppendNew(merged[k], selected_function)
                      ELSE merged[k]]]

(***************************************************************************)
(* The two operations called on one object, for the commits of the result  *)
(* rows.  The files of a commit are all dicts or all file names.           *)
(***************************************************************************)
VaultFile == <<"V", "a", "u", "l", "t", ".", "s", "o", "l">>
VaultDeposit == <<"V", "a", "u", "l", "t", ":", ":", "d", "e", "p", "o", "s", "i", "t">>
OracleF == <<"O", "r", "a", "c", "l", "e", ":", ":", "f">>
VaultContract == <<"V", "a", "u", "l", "t">>

RankedCommits ==
    LET FileData(before, after, hunks) ==
            [is_dict |-> TRUE, blob_url_before |-> before, blob_url_after |-> after,
             hunks |-> hunks]
        Hunk(found) == [context_is_none |-> FALSE, found |-> found]
        Name(text) == [is_dict |-> FALSE, text |-> text]
    IN  { "error" :> "Error in worker thread",
          "files" :> <<FileData(BlobAt(11), BlobAt(12), <<Hunk(<<<<"f">>, <<"g">>>>)>>)>>,
          "files" :> <<FileData(NoText, BlobAt(22), <<Hunk(<<<<"f">>>>)>>)>>,
          "files" :> <<FileData(BlobAt(31), BlobAt(32), <<Hunk(<<>>)>>)>>,
          "files" :> <<FileData(NoText, NoText, <<>>)>>,
          "files" :> <<FileData(BlobAt(41), BlobAt(42),
                                <<[context_is_none |-> TRUE, found |-> <<>>]>>)>>,
          ("files" :> <<Name(VaultFile)>>)
              @@ ("before_blob" :> <<BlobAt(51)>>) @@ ("after_blob" :> <<BlobAt(52)>>),
          ("files" :> <<Name(FileA), Name(VaultFile)>>)
              @@ ("before_blob" :> <<BlobAt(61)>>) @@ ("after_blob" :> <<>>),
          "message" :> <<"message", 1>> }

InitContext ==
    /\ pc = "start"
    /\ IdleEarlier /\ IdleDetails /\ IdleHistory /\ IdleGui
    /\ obj_context = EmptyDict

FixFinding ==
    /\ \E commit \in RankedCommits :
          LET call == fix_finding(obj_context, commit)
          IN  /\ obj_context' = call.context
              /\ pc' = "fix_finding " \o call.outcome
    /\ UNCHANGED <<earlierVars, dcVars, hrVars, uiVars>>

AddFunctionToContext ==
    /\ \E commit \in RankedCommits, selected_function \in {VaultDeposit, VaultContract, OracleF},
          function_type \in {"before", "after"} :
          LET call == add_function_to_context(obj_context, commit,
                                              selected_function, function_type)
          IN  /\ obj_context' = call.context
              /\ pc' = "add_function_to_context " \o call.outcome
    /\ UNCHANGED <<earlierVars, dcVars, hrVars, uiVars>>

NextContext == FixFinding \/ AddFunctionToContext

SpecContext == InitContext /\ [][NextContext]_vars

\* The references a source or fix holds
References(v) ==
    IF v.type = "str" THEN {v.text}
    ELSE IF v.type = "list" THEN Range(v.items)
    ELSE {}

\* The references under key and the names under key of a context
ReferencesIn(ctx, key) == IF key \in DOMAIN ctx THEN References(ctx[key]) ELSE {}
NamesIn(ctx, key) == IF key \in DOMAIN ctx THEN Range(ctx[key]) ELSE {}

\* C30: a call of add_function_to_context that succeeds keeps every function
\* name and every source and fix reference the context held before it.
C30_AddOnlyAdds ==
    [][pc' = "add_function_to_context done" =>
          /\ ReferencesIn(obj_context, "source") \subseteq ReferencesIn(obj_context', "source")
          /\ ReferencesIn(obj_context, "fix") \subseteq ReferencesIn(obj_context', "fix")
          /\ NamesIn(obj_context, "functions_before")
                 \subseteq NamesIn(obj_context', "functions_before")
          /\ NamesIn(obj_context, "functions_after")
                 \subseteq NamesIn(obj_context', "functions_after")]_vars

====
